---------------------------- MODULE Spec2Model ----------------------------
(***************************************************************************)
(* Model of the network portal (portal_app/portal.py) and of the config    *)
(* panel (config_app/config.py): the connection manager's state, the       *)
(* stabilization wait _wait_nm_state_exact, and the request handlers that  *)
(* issue connection-manager commands and poll for the result.              *)
(*                                                                         *)
(* Text is modelled as sequences of one-character strings, so that         *)
(* str.lower() and str.strip() are computed, not assumed.                  *)
(* Time is counted in ticks of the poll interval (0.25 s).                 *)
(***************************************************************************)
EXTENDS Integers, Sequences, FiniteSets, TLC

VARIABLES
    active,           \* connection manager: names of the active profiles
    wg_profile,       \* connection manager: the VPN profile [exists, autoconnect]
    hotspot_profile,  \* connection manager: the hotspot profile [ssid, key_mgmt, psk]
    h,                \* per request slot: the handler's frame (pc, endpoint, locals)
    w,                \* per request slot: the frame of _wait_nm_state_exact
    resp,             \* per request slot: the HTTP response of the last request
    log,              \* per request slot: external commands issued by the request
    drifts,           \* changes of the active set not caused by a command of ours
    calc              \* a function evaluated on its own: its arguments and result

vars == <<active, wg_profile, hotspot_profile, h, w, resp, log, drifts, calc>>

\* No function is being evaluated on its own.
NoCalc == [fn |-> "none"]

---------------------------------------------------------------------------
(* Bounds of the model *)

MaxTimeout == 4      \* largest timeout (in ticks) tried on the wait alone
WaitTimeout == 2     \* the handlers' timeout=60.0, scaled down to ticks
MaxPollCost == 1     \* ticks one status query may take
MaxDrifts == 1       \* spontaneous changes of the active set per run

Interval == 1        \* interval=0.25: one tick

---------------------------------------------------------------------------
(* Text *)

UpperChars == <<"A","B","C","D","E","F","G","H","I","J","K","L","M",
                "N","O","P","Q","R","S","T","U","V","W","X","Y","Z">>
LowerChars == <<"a","b","c","d","e","f","g","h","i","j","k","l","m",
                "n","o","p","q","r","s","t","u","v","w","x","y","z">>
Whitespace == {" ", "\t", "\n", "\r"}

LowerTable ==
    [c \in { UpperChars[i] : i \in 1..26 } |->
        LowerChars[CHOOSE i \in 1..26 : UpperChars[i] = c]]

LowerChar(c) == IF c \in DOMAIN LowerTable THEN LowerTable[c] ELSE c

\* str.lower()
Lower(s) == [i \in 1..Len(s) |-> LowerChar(s[i])]

RECURSIVE LStrip(_)
LStrip(s) == IF s # <<>> /\ Head(s) \in Whitespace THEN LStrip(Tail(s)) ELSE s

RECURSIVE RStrip(_)
RStrip(s) ==
    IF s # <<>> /\ s[Len(s)] \in Whitespace
    THEN RStrip(SubSeq(s, 1, Len(s) - 1))
    ELSE s

\* str.strip()
Strip(s) == LStrip(RStrip(s))

\* The code point of a character, for the characters of profile names.
CodePoint(c) ==
    IF \E i \in 1..26 : UpperChars[i] = c
    THEN 64 + (CHOOSE i \in 1..26 : UpperChars[i] = c)
    ELSE IF \E i \in 1..26 : LowerChars[i] = c
    THEN 96 + (CHOOSE i \in 1..26 : LowerChars[i] = c)
    ELSE IF c = "." THEN 46
    ELSE IF c = "7" THEN 55
    ELSE 32

\* s < t for two strings
RECURSIVE StrLess(_, _)
StrLess(s, t) ==
    IF t = << >> THEN FALSE
    ELSE IF s = << >> THEN TRUE
    ELSE IF Head(s) # Head(t) THEN CodePoint(Head(s)) < CodePoint(Head(t))
    ELSE StrLess(Tail(s), Tail(t))

\* sorted(names) of a set of strings
RECURSIVE sorted_names(_)
sorted_names(names) ==
    IF names = {} THEN << >>
    ELSE LET least == CHOOSE n \in names : \A m \in names \ {n} : StrLess(n, m)
         IN  <<least>> \o sorted_names(names \ {least})

---------------------------------------------------------------------------
(* Config / constants of portal.py *)

HOTSPOT_CONN == <<"H","o","t","s","p","o","t">>
WG_CONN == <<"t","e","r","m","7",".","w","i","r","e","g","u","a","r","d">>
TOR_CONN == <<"t","o","r","p","r","o","x","y">>

Procs == {"p1", "p2"}

\* len(password) < 8 or len(password) > 63
MinPskLen == 8
MaxPskLen == 63

---------------------------------------------------------------------------
(* active_connection_names: the lowercased names of the active profiles,   *)
(* or the empty set when the status query fails.                           *)

Returned(names) == [raised |-> FALSE, names |-> names]

\* try: ... names.add(name.strip().lower()) ... except Exception: return set()
active_connection_names(query_ok, act) ==
    IF query_ok THEN Returned({ Lower(Strip(n)) : n \in act }) ELSE Returned({})

---------------------------------------------------------------------------
(* _wait_nm_state_exact *)

NormTargets(ts) == { Lower(Strip(t)) : t \in ts }

\* The frame of a call.  polled, hist and real are not variables of the
\* code: they record the last set polled and, when recording is on, whether
\* the condition held at each poll, on the set polled (hist) and on the
\* connection manager's active set at that moment (real).
IdleWait ==
    [state |-> "idle", present |-> {}, absent |-> {}, timeout |-> 0,
     elapsed |-> 0, stable_hits |-> 0, names |-> {}, polled |-> {},
     hist |-> <<>>, real |-> <<>>, recording |-> FALSE, settled |-> FALSE]

\* Entry of the function: targets normalised, t0 taken, stable_hits = 0.
EnterWait(target_present, target_absent, timeout) ==
    [state |-> "polling",
     present |-> NormTargets(target_present),
     absent |-> NormTargets(target_absent),
     timeout |-> timeout,
     elapsed |-> 0, stable_hits |-> 0, names |-> {}, polled |-> {},
     hist |-> <<>>, real |-> <<>>, recording |-> FALSE, settled |-> FALSE]

\* ok_present and ok_absent
StableCond(present, absent, names) ==
    /\ \A tp \in present : tp \in names
    /\ \A ta \in absent : ta \notin names

\* The polls recorded in hist; the model keeps no more than HistCap of them.
HistCap == MaxTimeout + MaxPollCost + 3

Remember(wf, ok) ==
    IF wf.recording /\ Len(wf.hist) < HistCap THEN Append(wf.hist, ok) ELSE wf.hist

\* time.time() - t0 after a status query that took `cost` ticks
ClockResetEachPoll(elapsed, cost) == cost
ClockAfterPoll(elapsed, cost) == elapsed + cost

HitsWithoutReset(hits, ok) == IF ok THEN hits + 1 ELSE hits
HitsCountedTwice(hits, ok) == IF ok THEN hits + 2 ELSE 0
\* stable_hits += 1 on a hit, stable_hits = 0 on a miss
NextHits(hits, ok) == IF ok THEN hits + 1 ELSE 0

StaleSnapshot(wf, names) == IF wf.elapsed = 0 THEN names ELSE wf.names
\* the set returned with settled=False is the one just polled
TimeoutSnapshot(wf, names) == names

\* One iteration of the while-loop: poll, count, return or sleep.  `q` is what
\* active_connection_names() gave, `cost` the ticks the query took.  The
\* fields polled and hist only record what was polled.
WaitIter(wf, q, cost) ==
    LET names == q.names
        ok == StableCond(wf.present, wf.absent, names)
        hits == NextHits(wf.stable_hits, ok)
        now == ClockAfterPoll(wf.elapsed, cost)
        seen == [wf EXCEPT !.polled = names, !.hist = Remember(wf, ok),
                           !.stable_hits = hits, !.elapsed = now]
    IN  IF q.raised
        THEN [wf EXCEPT !.state = "raised"]
        ELSE IF ok /\ hits >= 2
        THEN [seen EXCEPT !.state = "returned", !.settled = TRUE, !.names = names]
        ELSE IF now >= wf.timeout
        THEN [seen EXCEPT !.state = "returned", !.settled = FALSE,
                          !.names = TimeoutSnapshot(wf, names)]
        ELSE [seen EXCEPT !.names = names, !.elapsed = now + Interval]

---------------------------------------------------------------------------
(* External commands.  A command ends in one of these ways; subprocess.run *)
(* returns a result for the first two and raises for the others,           *)
(* subprocess.check_output raises for all but the first.                   *)

Outcomes == {"ok", "nonzero", "timeout", "missing"}

NoResult == [set |-> FALSE, returncode |-> -1]
Completed(rc) == [set |-> TRUE, returncode |-> rc]

\* subprocess.run(..., timeout=...) without check=True
SubprocessRun(outcome) ==
    CASE outcome = "ok" -> [raised |-> FALSE, exc |-> "none", result |-> Completed(0)]
      [] outcome = "nonzero" -> [raised |-> FALSE, exc |-> "none", result |-> Completed(1)]
      [] outcome = "timeout" ->
            [raised |-> TRUE, exc |-> "TimeoutExpired", result |-> NoResult]
      [] OTHER -> [raised |-> TRUE, exc |-> "FileNotFoundError", result |-> NoResult]

\* subprocess.check_output(..., timeout=...)
CheckOutput(outcome) ==
    CASE outcome = "ok" -> [raised |-> FALSE, exc |-> "none", result |-> Completed(0)]
      [] outcome = "nonzero" ->
            [raised |-> TRUE, exc |-> "CalledProcessError", result |-> NoResult]
      [] outcome = "timeout" ->
            [raised |-> TRUE, exc |-> "TimeoutExpired", result |-> NoResult]
      [] OTHER -> [raised |-> TRUE, exc |-> "FileNotFoundError", result |-> NoResult]

\* try: ... except <classes>: <fallback>; "Exception" catches every class
Except(call, classes) ==
    IF call.raised /\ ("Exception" \in classes \/ call.exc \in classes)
    THEN [raised |-> FALSE, exc |-> "none", result |-> NoResult]
    ELSE call

_ok_for_any_exit_status(res) == res.set
\* _ok(res)
_ok(res) == res.set /\ res.returncode = 0

\* How a call ended, as the log of a request records it.
Ending(call) ==
    IF call.raised THEN "raised"
    ELSE IF call.result.returncode = 0 THEN "exit 0" ELSE "exit non-zero"

\* The profiles that exist in the connection manager.
Existing(wgp) == {HOTSPOT_CONN, TOR_CONN} \cup (IF wgp.exists THEN {WG_CONN} ELSE {})

\* A command on a profile can only succeed if the profile exists.
Possible(outcome, name, wgp) == outcome = "ok" => name \in Existing(wgp)

\* The same over the profile names the connection manager lists:
\* `name in names` of the stripped lines, else `out.strip() == name`.
HasConnection(name, primary_ok, fallback_ok, listed) ==
    \/ primary_ok /\ name \in { Strip(n) : n \in listed }
    \/ fallback_ok /\ name \in listed

nm_has_connection_taken_for_granted(name, primary_ok, fallback_ok, wgp) == TRUE
\* nm_has_connection: exact match in the list of names, else the direct query
nm_has_connection(name, primary_ok, fallback_ok, wgp) ==
    HasConnection(name, primary_ok, fallback_ok, Existing(wgp))

---------------------------------------------------------------------------
(* Request handlers, each the sequence of its steps.                       *)

wireguard_up_waiting_for_presence_only ==
    << [op |-> "has_connection", name |-> WG_CONN],
       [op |-> "down", name |-> TOR_CONN, keep |-> FALSE],
       [op |-> "wait", present |-> {}, absent |-> {TOR_CONN}, keep |-> FALSE],
       [op |-> "autoconnect", name |-> WG_CONN, enabled |-> TRUE],
       [op |-> "up", name |-> WG_CONN, keep |-> TRUE],
       [op |-> "wait", present |-> {WG_CONN}, absent |-> {}, keep |-> TRUE],
       [op |-> "respond", configured |-> "yes"] >>
wireguard_up ==
    << [op |-> "has_connection", name |-> WG_CONN],
       [op |-> "down", name |-> TOR_CONN, keep |-> FALSE],
       [op |-> "wait", present |-> {}, absent |-> {TOR_CONN}, keep |-> FALSE],
       [op |-> "autoconnect", name |-> WG_CONN, enabled |-> TRUE],
       [op |-> "up", name |-> WG_CONN, keep |-> TRUE],
       [op |-> "wait", present |-> {WG_CONN}, absent |-> {TOR_CONN}, keep |-> TRUE],
       [op |-> "respond", configured |-> "yes"] >>

wireguard_down ==
    << [op |-> "down", name |-> WG_CONN, keep |-> TRUE],
       [op |-> "wait", present |-> {}, absent |-> {WG_CONN}, keep |-> TRUE],
       [op |-> "autoconnect", name |-> WG_CONN, enabled |-> FALSE],
       [op |-> "respond", configured |-> "query"] >>

wireguard_down_keep_auto ==
    << [op |-> "has_connection", name |-> WG_CONN],
       [op |-> "down", name |-> WG_CONN, keep |-> TRUE],
       [op |-> "wait", present |-> {}, absent |-> {WG_CONN}, keep |-> TRUE],
       [op |-> "respond", configured |-> "yes"] >>

tor_up_activating_the_vpn ==
    << [op |-> "down", name |-> WG_CONN, keep |-> FALSE],
       [op |-> "wait", present |-> {}, absent |-> {WG_CONN}, keep |-> FALSE],
       [op |-> "up", name |-> WG_CONN, keep |-> TRUE],
       [op |-> "wait", present |-> {TOR_CONN}, absent |-> {WG_CONN}, keep |-> TRUE],
       [op |-> "respond", configured |-> "unset"] >>
tor_up_disabling_vpn_autoconnect ==
    << [op |-> "down", name |-> WG_CONN, keep |-> FALSE],
       [op |-> "wait", present |-> {}, absent |-> {WG_CONN}, keep |-> FALSE],
       [op |-> "autoconnect", name |-> WG_CONN, enabled |-> FALSE],
       [op |-> "up", name |-> TOR_CONN, keep |-> TRUE],
       [op |-> "wait", present |-> {TOR_CONN}, absent |-> {WG_CONN}, keep |-> TRUE],
       [op |-> "respond", configured |-> "unset"] >>
tor_up_without_wait ==
    << [op |-> "down", name |-> WG_CONN, keep |-> FALSE],
       [op |-> "up", name |-> TOR_CONN, keep |-> TRUE],
       [op |-> "wait", present |-> {TOR_CONN}, absent |-> {WG_CONN}, keep |-> TRUE],
       [op |-> "respond", configured |-> "unset"] >>
tor_up ==
    << [op |-> "down", name |-> WG_CONN, keep |-> FALSE],
       [op |-> "wait", present |-> {}, absent |-> {WG_CONN}, keep |-> FALSE],
       [op |-> "up", name |-> TOR_CONN, keep |-> TRUE],
       [op |-> "wait", present |-> {TOR_CONN}, absent |-> {WG_CONN}, keep |-> TRUE],
       [op |-> "respond", configured |-> "unset"] >>

tor_down_stopping_the_vpn_first ==
    << [op |-> "down", name |-> WG_CONN, keep |-> FALSE],
       [op |-> "wait", present |-> {}, absent |-> {WG_CONN}, keep |-> FALSE],
       [op |-> "down", name |-> TOR_CONN, keep |-> TRUE],
       [op |-> "wait", present |-> {}, absent |-> {TOR_CONN}, keep |-> TRUE],
       [op |-> "respond", configured |-> "unset"] >>
tor_down ==
    << [op |-> "down", name |-> TOR_CONN, keep |-> TRUE],
       [op |-> "wait", present |-> {}, absent |-> {TOR_CONN}, keep |-> TRUE],
       [op |-> "respond", configured |-> "unset"] >>

hotspot_config ==
    << [op |-> "modify_ssid"],
       [op |-> "modify_psk"],
       [op |-> "respond_ok"] >>

hotspot_up_activating_first ==
    << [op |-> "up", name |-> HOTSPOT_CONN, keep |-> TRUE],
       [op |-> "wait", present |-> {HOTSPOT_CONN}, absent |-> {}, keep |-> TRUE],
       [op |-> "modify_ssid"],
       [op |-> "modify_psk"],
       [op |-> "respond", configured |-> "unset"] >>
hotspot_up ==
    << [op |-> "modify_ssid"],
       [op |-> "modify_psk"],
       [op |-> "up", name |-> HOTSPOT_CONN, keep |-> TRUE],
       [op |-> "wait", present |-> {HOTSPOT_CONN}, absent |-> {}, keep |-> TRUE],
       [op |-> "respond", configured |-> "unset"] >>

hotspot_down ==
    << [op |-> "down", name |-> HOTSPOT_CONN, keep |-> TRUE],
       [op |-> "wait", present |-> {}, absent |-> {HOTSPOT_CONN}, keep |-> TRUE],
       [op |-> "respond", configured |-> "unset"] >>

submit ==
    << [op |-> "wifi_connect"] >>

\* Endpoints that only read: the portal's, then the config panel's.
ReadEndpoints ==
    {"status", "svc_status", "scan_iw_dump", "hotspot/info", "hotspot/clients",
     "time", "stats", "ntp"}
LookupEndpoints == {"server_ip", "server_geo"}
ActionEndpoints == {"action/reboot", "action/shutdown"}

Program(ep) ==
    CASE ep = "wg/up" -> wireguard_up
      [] ep = "wg/down" -> wireguard_down
      [] ep = "wg/down_keep_auto" -> wireguard_down_keep_auto
      [] ep = "tor/up" -> tor_up
      [] ep = "tor/down" -> tor_down
      [] ep = "hotspot/config" -> hotspot_config
      [] ep = "hotspot/up" -> hotspot_up
      [] ep = "hotspot/down" -> hotspot_down
      [] ep = "submit" -> submit
      [] ep \in ReadEndpoints -> << [op |-> "read"] >>
      [] ep \in LookupEndpoints -> << [op |-> "lookup"] >>
      [] ep \in ActionEndpoints -> << [op |-> "action"] >>
      [] OTHER -> << >>

ToggleEndpoints == {"wg/up", "wg/down", "wg/down_keep_auto", "tor/up", "tor/down"}

---------------------------------------------------------------------------
(* Handler frames and responses *)

NoForm == << >>

\* request.form.get(key) or ""
FormGet(form, key) == IF key \in DOMAIN form THEN form[key] ELSE << >>

IdleFrame ==
    [phase |-> "idle", ep |-> "none", pc |-> 0, form |-> NoForm, r |-> NoResult,
     tries |-> 0, sleeps |-> 0,
     names |-> {}, settled |-> FALSE,
     \* not variables of the code: the active set, the hotspot profile and
     \* the VPN profile's autoconnect when the request arrived, and whether
     \* the peer had issued its deactivate before our activate
     active0 |-> {}, hotspot0 |-> << >>, autoconnect0 |-> FALSE,
     peer_down_first |-> FALSE]

NoResp ==
    [status |-> 0, unhandled |-> FALSE, ok |-> FALSE, rc |-> -1,
     settled |-> FALSE, active |-> << >>, configured |-> "unset", error |-> "none",
     headers |-> {}]

\* resp.headers["Cache-Control"] = "no-store" (or the longer directive list)
NoStore == [NoResp EXCEPT !.headers = {"Cache-Control"}]

Step(p) == Program(h[p].ep)[h[p].pc]
Running(p, op) == h[p].phase = "running" /\ Step(p).op = op

\* The frame and the wait frame of p once its handler moves on to step k.
Goto(frame, k) == [frame EXCEPT !.pc = k]
WaitAt(ep, k, wf) ==
    LET st == Program(ep)[k] IN
      IF st.op = "wait" THEN EnterWait(st.present, st.absent, WaitTimeout) ELSE wf

Logged(p, entry) == [log EXCEPT ![p] = Append(@, entry)]

\* An exception no handler catches: the request ends in the framework's 500.
Unhandled == [NoResp EXCEPT !.status = 500, !.unhandled = TRUE]
Crash(frame) == [frame EXCEPT !.phase = "crashed"]

\* A request arrives.
Request(p, eps, forms) ==
    /\ h[p].phase = "idle"
    /\ \E ep \in eps, form \in forms :
          /\ h' = [h EXCEPT ![p] = [IdleFrame EXCEPT !.phase = "running",
                                                     !.ep = ep, !.pc = 1,
                                                     !.form = form,
                                                     !.active0 = active,
                                                     !.hotspot0 = hotspot_profile,
                                                     !.autoconnect0 =
                                                         wg_profile.autoconnect]]
          /\ w' = [w EXCEPT ![p] = WaitAt(ep, 1, @)]
    /\ UNCHANGED <<active, wg_profile, hotspot_profile, resp, log, drifts, calc>>

\* if not nm_has_connection(WG_CONN): 404, configured False
HasConnectionStep(p) ==
    /\ Running(p, "has_connection")
    /\ \E primary_ok \in BOOLEAN, fallback_ok \in BOOLEAN :
          IF nm_has_connection(Step(p).name, primary_ok, fallback_ok, wg_profile)
          THEN /\ h' = [h EXCEPT ![p] = Goto(@, @.pc + 1)]
               /\ resp' = resp
          ELSE /\ h' = [h EXCEPT ![p].phase = "done"]
               /\ resp' = [resp EXCEPT ![p] =
                            [NoStore EXCEPT !.status = 404, !.configured = "no",
                                           !.error = "wireguard profile not found"]]
    /\ UNCHANGED <<active, wg_profile, hotspot_profile, w, log, drifts, calc>>

\* The peer request's deactivate command has been issued.
PeerDownIssued(p) ==
    \A q \in Procs \ {p} : \E i \in 1..Len(log[q]) : log[q][i].op = "down"

\* The connection manager applies an up or a down to the named profile only.
Applied(op, name, act) == IF op = "up" THEN act \cup {name} ELSE act \ {name}

\* nm_con_down(name) / nm_con_up(name): the command runs, and the handler
\* goes on to its next step (entering the wait if that is next).
NmCommand(p, op) ==
    /\ Running(p, op)
    /\ \E outcome \in Outcomes :
          LET call == SubprocessRun(outcome)
              st == Step(p)
          IN  /\ Possible(outcome, st.name, wg_profile)
              /\ active' = IF outcome = "ok" THEN Applied(op, st.name, active) ELSE active
              /\ log' = Logged(p, [op |-> op, name |-> st.name, end |-> Ending(call)])
              /\ IF call.raised
                 THEN /\ h' = [h EXCEPT ![p] = Crash(@)]
                      /\ resp' = [resp EXCEPT ![p] = Unhandled]
                      /\ w' = w
                 ELSE /\ h' = [h EXCEPT ![p] =
                                [Goto(@, @.pc + 1) EXCEPT
                                   !.r = IF st.keep THEN call.result ELSE @,
                                   !.peer_down_first =
                                       IF op = "up" THEN PeerDownIssued(p) ELSE @]]
                      /\ resp' = resp
                      /\ w' = [w EXCEPT ![p] = WaitAt(h[p].ep, h[p].pc + 1, @)]
    /\ UNCHANGED <<wg_profile, hotspot_profile, drifts, calc>>

nm_con_down(p) == NmCommand(p, "down")
nm_con_up(p) == NmCommand(p, "up")

\* nm_set_autoconnect: best effort, every error swallowed
nm_set_autoconnect(p) ==
    /\ Running(p, "autoconnect")
    /\ \E outcome \in Outcomes :
          /\ Possible(outcome, Step(p).name, wg_profile)
          /\ wg_profile' = IF outcome = "ok"
                           THEN [wg_profile EXCEPT !.autoconnect = Step(p).enabled]
                           ELSE wg_profile
          /\ log' = Logged(p, [op |-> "autoconnect", name |-> Step(p).name,
                               end |-> Ending(SubprocessRun(outcome))])
    /\ h' = [h EXCEPT ![p] = Goto(@, @.pc + 1)]
    /\ w' = [w EXCEPT ![p] = WaitAt(h[p].ep, h[p].pc + 1, @)]
    /\ UNCHANGED <<active, hotspot_profile, resp, drifts, calc>>

\* The wait frame once the function has returned to a handler: nothing is
\* left of it but the value it returned.
ReturnValue(wf) == [IdleWait EXCEPT !.settled = wf.settled]

\* Where a handler goes on when its wait has returned: at its next
\* statement, whatever the wait gave.
AfterWait_ending_the_request_when_unsettled(frame, wf) ==
    IF wf.settled THEN frame.pc + 1 ELSE Len(Program(frame.ep))
AfterWait(frame, wf) == frame.pc + 1

\* A status query is made and the loop body runs once; when the wait
\* returns to a handler, the handler keeps or drops (names, settled) and
\* goes on.
_wait_nm_state_exact(p) ==
    /\ w[p].state = "polling"
    /\ \E query_ok \in BOOLEAN, cost \in 0..MaxPollCost :
          LET polled == WaitIter(w[p], active_connection_names(query_ok, active), cost)
              truth == StableCond(w[p].present, w[p].absent,
                                  active_connection_names(TRUE, active).names)
              wf == [polled EXCEPT !.real = IF Len(polled.hist) > Len(@)
                                            THEN Append(@, truth) ELSE @]
              back == wf.state = "returned" /\ h[p].phase = "running"
          IN  /\ w' = [w EXCEPT ![p] = IF back THEN ReturnValue(wf) ELSE wf]
              /\ h' = IF back
                      THEN [h EXCEPT ![p] =
                              [Goto(@, AfterWait(@, wf)) EXCEPT
                                 !.names = IF Step(p).keep THEN wf.names ELSE @,
                                 !.settled = IF Step(p).keep THEN wf.settled ELSE @]]
                      ELSE h
              /\ log' = IF back
                        THEN Logged(p, [op |-> "wait", present |-> wf.present,
                                        absent |-> wf.absent, end |-> "returned"])
                        ELSE log
    /\ UNCHANGED <<active, wg_profile, hotspot_profile, resp, drifts, calc>>

\* _json_from_nm(r), settled, active, configured; 200 if _ok(r) else 500
Respond(p) ==
    /\ Running(p, "respond")
    /\ \E primary_ok \in BOOLEAN, fallback_ok \in BOOLEAN :
          LET f == h[p]
              configured ==
                 IF Step(p).configured = "query"
                 THEN IF nm_has_connection(WG_CONN, primary_ok, fallback_ok, wg_profile)
                      THEN "yes" ELSE "no"
                 ELSE Step(p).configured
          IN  resp' = [resp EXCEPT ![p] =
                         [NoStore EXCEPT !.status = IF _ok(f.r) THEN 200 ELSE 500,
                                        !.ok = _ok(f.r),
                                        !.rc = f.r.returncode,
                                        !.settled = f.settled,
                                        !.active = sorted_names(f.names),
                                        !.configured = configured]]
    /\ h' = [h EXCEPT ![p].phase = "done"]
    /\ UNCHANGED <<active, wg_profile, hotspot_profile, w, log, drifts, calc>>

\* The connection manager changes the active set on its own.
NmDrift(profiles) ==
    /\ drifts < MaxDrifts
    /\ drifts' = drifts + 1
    /\ \E n \in profiles :
          active' = IF n \in active THEN active \ {n} ELSE active \cup {n}
    /\ UNCHANGED <<wg_profile, hotspot_profile, h, w, resp, log, calc>>

---------------------------------------------------------------------------
(* The portal serving one toggle request, against a connection manager    *)
(* whose active set may also change on its own.                            *)

Init ==
    /\ active \in SUBSET {WG_CONN, TOR_CONN}
    /\ wg_profile \in [exists : BOOLEAN, autoconnect : BOOLEAN]
    /\ hotspot_profile = [ssid |-> HOTSPOT_CONN, key_mgmt |-> "none", psk |-> <<>>]
    /\ h = [p \in Procs |-> IdleFrame]
    /\ w = [p \in Procs |-> IdleWait]
    /\ resp = [p \in Procs |-> NoResp]
    /\ log = [p \in Procs |-> <<>>]
    /\ drifts = 0
    /\ calc = NoCalc

Next ==
    \/ Request("p1", ToggleEndpoints, {NoForm})
    \/ \E p \in Procs : HasConnectionStep(p)
    \/ \E p \in Procs : nm_con_down(p)
    \/ \E p \in Procs : nm_con_up(p)
    \/ \E p \in Procs : nm_set_autoconnect(p)
    \/ \E p \in Procs : _wait_nm_state_exact(p)
    \/ \E p \in Procs : Respond(p)
    \/ NmDrift({WG_CONN, TOR_CONN})

Spec == Init /\ [][Next]_vars

---------------------------------------------------------------------------
(* Two requests for the mutually exclusive pair handled at once, against a *)
(* connection manager that applies each command to the named profile only. *)

InitConcurrent ==
    /\ active \in SUBSET {WG_CONN, TOR_CONN}
    /\ wg_profile = [exists |-> TRUE, autoconnect |-> FALSE]
    /\ hotspot_profile = [ssid |-> HOTSPOT_CONN, key_mgmt |-> "none", psk |-> <<>>]
    /\ h = [p \in Procs |-> IdleFrame]
    /\ w = [p \in Procs |-> IdleWait]
    /\ resp = [p \in Procs |-> NoResp]
    /\ log = [p \in Procs |-> <<>>]
    /\ drifts = 0
    /\ calc = NoCalc

NextConcurrent ==
    \/ Request("p1", {"wg/up"}, {NoForm})
    \/ Request("p2", {"tor/up"}, {NoForm})
    \/ \E p \in Procs : HasConnectionStep(p)
    \/ \E p \in Procs : nm_con_down(p)
    \/ \E p \in Procs : nm_con_up(p)
    \/ \E p \in Procs : nm_set_autoconnect(p)
    \/ \E p \in Procs : _wait_nm_state_exact(p)
    \/ \E p \in Procs : Respond(p)

SpecConcurrent == InitConcurrent /\ [][NextConcurrent]_vars

---------------------------------------------------------------------------
(* Hotspot configuration and Wi-Fi connect *)

\* A reply that ends the request.
Reply(p, r) == [resp EXCEPT ![p] = r]
Done(frame) == [frame EXCEPT !.phase = "done"]

\* jsonify(ok=False, **_json_from_nm(r)), 400
ModifyFailed(res) ==
    [NoStore EXCEPT !.status = 400, !.rc = res.returncode, !.error = "modify failed"]

\* jsonify(ok=False, error="Password must be 8-63 characters for WPA-PSK"), 400
PasswordLengthError ==
    [NoStore EXCEPT !.status = 400, !.error = "Password must be 8-63 characters"]

\* if ssid: r = _nm_modify_hotspot_ssid(ssid); 400 when it exits non-zero
ModifySsidStep(p) ==
    /\ Running(p, "modify_ssid")
    /\ LET ssid == Strip(FormGet(h[p].form, "ssid")) IN
         IF ssid = << >>
         THEN /\ h' = [h EXCEPT ![p] = Goto(@, @.pc + 1)]
              /\ UNCHANGED <<hotspot_profile, resp, log>>
         ELSE \E outcome \in Outcomes :
                LET call == SubprocessRun(outcome) IN
                  /\ log' = Logged(p, [op |-> "modify_ssid", name |-> HOTSPOT_CONN,
                                       end |-> Ending(call)])
                  /\ hotspot_profile' =
                        IF outcome = "ok"
                        THEN [hotspot_profile EXCEPT !.ssid = ssid]
                        ELSE hotspot_profile
                  /\ IF call.raised
                     THEN h' = [h EXCEPT ![p] = Crash(@)] /\ resp' = Reply(p, Unhandled)
                     ELSE IF call.result.returncode # 0
                     THEN /\ h' = [h EXCEPT ![p] = Done(@)]
                          /\ resp' = Reply(p, ModifyFailed(call.result))
                     ELSE h' = [h EXCEPT ![p] = Goto(@, @.pc + 1)] /\ resp' = resp
    /\ UNCHANGED <<active, wg_profile, w, drifts, calc>>

\* len(password) < 8 or len(password) > 63
PasswordRejected(password) ==
    Len(password) < MinPskLen \/ Len(password) > MaxPskLen

\* _nm_modify_hotspot_psk: key-mgmt wpa-psk, then the psk; stops at the
\* first command that exits non-zero.  Gives the call that ended it, the
\* profile afterwards and the commands run.
_nm_modify_hotspot_psk(psk, first, second, profile) ==
    LET c1 == SubprocessRun(first)
        c2 == SubprocessRun(second)
        e1 == [op |-> "modify_key_mgmt", name |-> HOTSPOT_CONN, end |-> Ending(c1)]
        e2 == [op |-> "modify_psk", name |-> HOTSPOT_CONN, end |-> Ending(c2)]
        p1 == IF first = "ok" THEN [profile EXCEPT !.key_mgmt = "wpa-psk"] ELSE profile
        p2 == IF second = "ok" THEN [p1 EXCEPT !.psk = psk] ELSE p1
    IN  IF c1.raised \/ c1.result.returncode # 0
        THEN [call |-> c1, profile |-> p1, ran |-> <<e1>>]
        ELSE [call |-> c2, profile |-> p2, ran |-> <<e1, e2>>]

\* if password: the length check, then _nm_modify_hotspot_psk(password)
ModifyPskStep(p) ==
    /\ Running(p, "modify_psk")
    /\ LET password == FormGet(h[p].form, "password") IN
         IF password = << >>
         THEN /\ h' = [h EXCEPT ![p] = Goto(@, @.pc + 1)]
              /\ UNCHANGED <<hotspot_profile, resp, log>>
         ELSE IF PasswordRejected(password)
         THEN /\ h' = [h EXCEPT ![p] = Done(@)]
              /\ resp' = Reply(p, PasswordLengthError)
              /\ UNCHANGED <<hotspot_profile, log>>
         ELSE \E first \in Outcomes, second \in Outcomes :
                LET m == _nm_modify_hotspot_psk(password, first, second, hotspot_profile)
                IN  /\ first # "ok" => second = "ok"
                    /\ log' = [log EXCEPT ![p] = @ \o m.ran]
                    /\ hotspot_profile' = m.profile
                    /\ IF m.call.raised
                       THEN h' = [h EXCEPT ![p] = Crash(@)] /\ resp' = Reply(p, Unhandled)
                       ELSE IF m.call.result.returncode # 0
                       THEN /\ h' = [h EXCEPT ![p] = Done(@)]
                            /\ resp' = Reply(p, ModifyFailed(m.call.result))
                       ELSE h' = [h EXCEPT ![p] = Goto(@, @.pc + 1)] /\ resp' = resp
    /\ UNCHANGED <<active, wg_profile, w, drifts, calc>>

\* jsonify(ok=True), 200
RespondOk(p) ==
    /\ Running(p, "respond_ok")
    /\ h' = [h EXCEPT ![p] = Done(@)]
    /\ resp' = Reply(p, [NoStore EXCEPT !.status = 200, !.ok = TRUE])
    /\ UNCHANGED <<active, wg_profile, hotspot_profile, w, log, drifts, calc>>

\* submit: 400 without an ssid; nmcli device wifi connect; 400 when it
\* exits non-zero, else 200
WifiConnect(p) ==
    /\ Running(p, "wifi_connect")
    /\ LET ssid == FormGet(h[p].form, "ssid") IN
         IF ssid = << >>
         THEN /\ resp' = Reply(p, [NoResp EXCEPT !.status = 400, !.error = "no ssid"])
              /\ h' = [h EXCEPT ![p] = Done(@)]
              /\ log' = log
         ELSE \E outcome \in Outcomes :
                LET call == SubprocessRun(outcome) IN
                  /\ log' = Logged(p, [op |-> "wifi_connect", name |-> ssid,
                                       end |-> Ending(call)])
                  /\ IF call.raised
                     THEN h' = [h EXCEPT ![p] = Crash(@)] /\ resp' = Reply(p, Unhandled)
                     ELSE /\ h' = [h EXCEPT ![p] = Done(@)]
                          /\ resp' = Reply(p,
                               IF call.result.returncode # 0
                               THEN [NoResp EXCEPT !.status = 400, !.rc = 1,
                                                   !.error = "connect failed"]
                               ELSE [NoResp EXCEPT !.status = 200, !.ok = TRUE])
    /\ UNCHANGED <<active, wg_profile, hotspot_profile, w, drifts, calc>>

HotspotEndpoints == {"hotspot/config", "hotspot/up", "hotspot/down", "submit"}

\* Submitted texts: none, blank, a name; passwords around the two limits.
Text(n) == [i \in 1..n |-> "x"]
Ssids == { << >>, <<" ">>, <<" ", "N", "e", "t">> }
Passwords == { Text(n) : n \in {0, MinPskLen - 1, MinPskLen, MaxPskLen, MaxPskLen + 1} }

Forms ==
    UNION { { [k \in K |-> IF k = "ssid" THEN s ELSE pw] : s \in Ssids, pw \in Passwords }
            : K \in SUBSET {"ssid", "password"} }

InitHotspot ==
    /\ active \in SUBSET {HOTSPOT_CONN}
    /\ wg_profile = [exists |-> TRUE, autoconnect |-> FALSE]
    /\ hotspot_profile \in
          { [ssid |-> HOTSPOT_CONN, key_mgmt |-> "none", psk |-> << >>],
            [ssid |-> HOTSPOT_CONN, key_mgmt |-> "wpa-psk", psk |-> Text(MinPskLen + 1)] }
    /\ h = [p \in Procs |-> IdleFrame]
    /\ w = [p \in Procs |-> IdleWait]
    /\ resp = [p \in Procs |-> NoResp]
    /\ log = [p \in Procs |-> <<>>]
    /\ drifts = 0
    /\ calc = NoCalc

NextHotspot ==
    \/ Request("p1", HotspotEndpoints, Forms)
    \/ ModifySsidStep("p1")
    \/ ModifyPskStep("p1")
    \/ RespondOk("p1")
    \/ WifiConnect("p1")
    \/ nm_con_down("p1")
    \/ nm_con_up("p1")
    \/ _wait_nm_state_exact("p1")
    \/ Respond("p1")
    \/ NmDrift({HOTSPOT_CONN})

SpecHotspot == InitHotspot /\ [][NextHotspot]_vars

---------------------------------------------------------------------------
(* Every toggle endpoint, one request at a time: the five of the VPN and   *)
(* the proxy, and hotspot/up and hotspot/down.  The active set changes by  *)
(* the request's own commands only.                                        *)

\* What hotspot/up is sent: nothing, a name and a password of the shortest
\* length allowed, a password one character short of it.
ToggleForms ==
    { NoForm,
      [ssid |-> <<"N">>, password |-> Text(MinPskLen)],
      [password |-> Text(MinPskLen - 1)] }

InitToggles ==
    /\ active \in SUBSET {WG_CONN, TOR_CONN, HOTSPOT_CONN}
    /\ wg_profile \in [exists : BOOLEAN, autoconnect : BOOLEAN]
    /\ hotspot_profile = [ssid |-> HOTSPOT_CONN, key_mgmt |-> "none", psk |-> <<>>]
    /\ h = [p \in Procs |-> IdleFrame]
    /\ w = [p \in Procs |-> IdleWait]
    /\ resp = [p \in Procs |-> NoResp]
    /\ log = [p \in Procs |-> <<>>]
    /\ drifts = 0
    /\ calc = NoCalc

NextToggles ==
    \/ Request("p1", ToggleEndpoints \cup {"hotspot/down"}, {NoForm})
    \/ Request("p1", {"hotspot/up"}, ToggleForms)
    \/ HasConnectionStep("p1")
    \/ ModifySsidStep("p1")
    \/ ModifyPskStep("p1")
    \/ nm_con_down("p1")
    \/ nm_con_up("p1")
    \/ nm_set_autoconnect("p1")
    \/ _wait_nm_state_exact("p1")
    \/ Respond("p1")

SpecToggles == InitToggles /\ [][NextToggles]_vars

---------------------------------------------------------------------------
(* Read-only endpoints, upstream lookups and the config panel's actions *)

NmErrors == {"CalledProcessError", "TimeoutExpired", "FileNotFoundError"}

\* sudo_iw: subprocess.run(["sudo", "-n", IW_BIN] + args, timeout=...)
sudo_iw(iw) == SubprocessRun(iw)

\* nm_device_table: the three subprocess errors give {}
nm_device_table(nm) == Except(CheckOutput(nm), NmErrors)

\* _ssid_from_connection_name: except Exception: return conn_name
_ssid_from_connection_name(nm) == Except(CheckOutput(nm), {"Exception"})

\* get_current_ssid_connect_iface_only
get_current_ssid_connect_iface_only(nm, show) ==
    LET table == nm_device_table(nm) IN
      IF table.raised \/ ~table.result.set THEN table
      ELSE _ssid_from_connection_name(show)

\* nm_hotspot_info, nm_get_autoconnect, _read_hotspot_psk: except Exception
nm_hotspot_info(nm) == Except(CheckOutput(nm), {"Exception"})

\* count_hotspot_clients: try: sudo_iw(...) except Exception: return 0
count_hotspot_clients(iw) == Except(sudo_iw(iw), {"Exception"})

\* The first call that raised, if any, else the last.
RECURSIVE Chain(_)
Chain(calls) ==
    IF Len(calls) = 1 \/ Head(calls).raised THEN Head(calls) ELSE Chain(Tail(calls))

\* What the body of a read-only handler calls, for the outcomes of the
\* tools behind it: iw, and two connection-manager queries.
ReadBody(ep, iw, nm, show) ==
    CASE ep = "status" -> get_current_ssid_connect_iface_only(nm, show)
      [] ep = "svc_status" ->
            Chain(<< Except(CheckOutput(nm), {"Exception"}),
                     get_current_ssid_connect_iface_only(nm, show) >>)
      [] ep = "scan_iw_dump" ->
            LET scan == sudo_iw(iw) IN
              IF ~scan.raised /\ _ok(scan.result)
              THEN Chain(<< scan, get_current_ssid_connect_iface_only(nm, show),
                            nm_hotspot_info(show) >>)
              ELSE Chain(<< scan, nm_hotspot_info(show) >>)
      [] ep = "hotspot/info" -> nm_hotspot_info(nm)
      [] ep = "hotspot/clients" -> count_hotspot_clients(iw)
      [] OTHER -> Except(CheckOutput(iw), {"Exception"})

\* The endpoints of the config panel; the others are the portal's.
ConfigEndpoints == {"time", "stats", "ntp", "action/reboot", "action/shutdown"}

\* config.py headers(resp), run after every request of the config panel:
\* the frame and content-security policy always, the cache headers when the
\* path ends with one of the listed endpoints
headers(ep, r) ==
    [r EXCEPT !.headers =
        @ \cup {"X-Frame-Options", "Content-Security-Policy"}
          \cup (IF ep \in {"time", "stats", "config/time", "config/stats",
                           "action/reboot", "action/shutdown", "health", "ntp"}
                THEN {"Cache-Control", "Pragma"} ELSE {})]

\* What the application does with a response before it is sent: the config
\* panel runs headers(), the portal registers no such hook.
Outgoing(ep, r) == IF ep \in ConfigEndpoints THEN headers(ep, r) ELSE r

\* The response a read-only handler builds: the portal's handlers set the
\* cache header themselves, the config panel's return jsonify(...) as it is.
Plain(ep) == IF ep \in ConfigEndpoints THEN NoResp ELSE NoStore

\* A read-only handler runs: 200, unless an exception leaves it.
ReadStep(p) ==
    /\ Running(p, "read")
    /\ \E iw \in Outcomes, nm \in Outcomes, show \in Outcomes :
          LET body == ReadBody(h[p].ep, iw, nm, show) IN
            /\ log' = Logged(p, [op |-> "read", name |-> <<iw, nm, show>>,
                                 end |-> IF body.raised THEN "raised" ELSE "returned"])
            /\ IF body.raised
               THEN h' = [h EXCEPT ![p] = Crash(@)] /\ resp' = Reply(p, Outgoing(h[p].ep, Unhandled))
               ELSE /\ h' = [h EXCEPT ![p] = Done(@)]
                    /\ resp' = Reply(p, Outgoing(h[p].ep, [Plain(h[p].ep) EXCEPT !.status = 200,
                                                              !.ok = TRUE]))
    /\ UNCHANGED <<active, wg_profile, hotspot_profile, w, drifts, calc>>

\* attempts = 2
Attempts == 2

\* What one upstream attempt can give.  A URLError carries as its reason an
\* exception object (a socket error) or a text (an HTTP error).
Answers ==
    {"ipv4", "ipv6", "invalid ip", "bad json", "raw ipv4", "raw ipv6",
     "invalid response", "url error", "url error text", "error"}

Failures == {"url error", "url error text", "error"}

\* server_ip, one attempt: found (break), or failed with or without the
\* time.sleep(0.4) at the end of the loop body (continue skips it)
ServerIpAttempt(answer) ==
    [found |-> answer \in {"ipv4", "raw ipv4"},
     slept |-> answer \in {"bad json", "invalid response"} \cup Failures]

\* server_geo, one attempt: any body read gives 200 unless handling it raises
ServerGeoAttempt(answer) ==
    [found |-> answer \notin {"invalid response"} \cup Failures,
     slept |-> answer \in {"invalid response"} \cup Failures]

\* jsonify({"ip": None, "error": err or "unavailable"}): err is the reason of
\* the URLError as it came, server_geo sends str(last_err)[:200]
Serializable(ep, answer) == ep = "server_geo" \/ answer # "url error"

\* One pass of the for-loop of server_ip / server_geo, and the reply once a
\* pass succeeds or the attempts are used up.
LookupStep(p) ==
    /\ Running(p, "lookup")
    /\ LET ip == FormGet(h[p].form, "ip") IN
         IF h[p].ep = "server_geo" /\ ip # <<"4">>
         THEN /\ h' = [h EXCEPT ![p] = Done(@)]
              /\ log' = log
              /\ resp' = Reply(p, [NoResp EXCEPT !.status = 400,
                                     !.error = IF ip = <<"6">> THEN "ipv6 not allowed"
                                               ELSE "invalid ip"])
         ELSE \E answer \in Answers :
                LET a == IF h[p].ep = "server_ip" THEN ServerIpAttempt(answer)
                         ELSE ServerGeoAttempt(answer)
                    f == [h[p] EXCEPT !.tries = @ + 1,
                                      !.sleeps = IF a.slept THEN @ + 1 ELSE @]
                IN  /\ log' = Logged(p, [op |-> "attempt", name |-> <<answer>>,
                                          end |-> IF a.slept THEN "slept"
                                                  ELSE "no sleep"])
                    /\ IF a.found
                       THEN /\ h' = [h EXCEPT ![p] = Done(f)]
                            /\ resp' = Reply(p, [NoStore EXCEPT !.status = 200,
                                                                !.ok = TRUE])
                       ELSE IF f.tries >= Attempts /\ ~Serializable(h[p].ep, answer)
                       THEN h' = [h EXCEPT ![p] = Crash(f)] /\ resp' = Reply(p, Unhandled)
                       ELSE IF f.tries >= Attempts
                       THEN /\ h' = [h EXCEPT ![p] = Done(f)]
                            /\ resp' = Reply(p, [NoStore EXCEPT !.status = 502,
                                                                !.error = answer])
                       ELSE h' = [h EXCEPT ![p] = f] /\ resp' = resp
    /\ UNCHANGED <<active, wg_profile, hotspot_profile, w, drifts, calc>>

\* config.py _run: subprocess.run(cmd, check=True, ...) with no timeout;
\* CalledProcessError and every other exception give (False, msg)
_run(outcome) == Except(CheckOutput(outcome), {"CalledProcessError", "Exception"})

\* do_shutdown / do_reboot: 200 if ok else 500.  The command is given no
\* timeout: one that does not end leaves the request blocked.
ActionStep(p) ==
    /\ Running(p, "action")
    /\ \E outcome \in Outcomes :
          LET done == _run(outcome)
              ok == outcome = "ok"
          IN  /\ log' = Logged(p, [op |-> "action", name |-> <<outcome>>,
                                   end |-> IF outcome = "timeout" THEN "never"
                                           ELSE "returned"])
              /\ IF outcome = "timeout"
                 THEN h' = [h EXCEPT ![p].phase = "blocked"] /\ resp' = resp
                 ELSE IF done.raised
                 THEN h' = [h EXCEPT ![p] = Crash(@)] /\ resp' = Reply(p, Outgoing(h[p].ep, Unhandled))
                 ELSE /\ h' = [h EXCEPT ![p] = Done(@)]
                      /\ resp' = Reply(p, Outgoing(h[p].ep, [NoResp EXCEPT
                                             !.status = IF ok THEN 200 ELSE 500,
                                             !.ok = ok]))
    /\ UNCHANGED <<active, wg_profile, hotspot_profile, w, drifts, calc>>

\* ?ip= of server_geo: an IPv4 address, an IPv6 address, something else
IpArgs == { [ip |-> <<"4">>], [ip |-> <<"6">>], [ip |-> <<"x">>], NoForm }

NextRead ==
    \/ Request("p1", ReadEndpoints, {NoForm})
    \/ Request("p1", LookupEndpoints, IpArgs)
    \/ Request("p1", ActionEndpoints, {NoForm})
    \/ ReadStep("p1")
    \/ LookupStep("p1")
    \/ ActionStep("p1")

SpecRead == InitHotspot /\ [][NextRead]_vars

---------------------------------------------------------------------------
(* Functions evaluated on their own: the rest of the system stays idle.    *)

world == <<active, wg_profile, hotspot_profile, h, w, resp, log, drifts>>

Idle ==
    /\ active = {}
    /\ wg_profile = [exists |-> TRUE, autoconnect |-> FALSE]
    /\ hotspot_profile = [ssid |-> HOTSPOT_CONN, key_mgmt |-> "none", psk |-> << >>]
    /\ h = [p \in Procs |-> IdleFrame]
    /\ w = [p \in Procs |-> IdleWait]
    /\ resp = [p \in Procs |-> NoResp]
    /\ log = [p \in Procs |-> <<>>]
    /\ drifts = 0

\* The function of calc is applied to its arguments.
Apply(fn, out) ==
    /\ calc.fn = fn /\ ~calc.done
    /\ calc' = [calc EXCEPT !.done = TRUE, !.out = out]
    /\ UNCHANGED world

---------------------------------------------------------------------------
(* Comparisons of a profile name against connection-manager output *)

\* Names that differ in letter case only, and names that differ otherwise.
MaxNameLen == 2
NameChars == {"w", "W", "g"}
Names == { s \in [1..MaxNameLen -> NameChars] : TRUE }

\* "hotspot": (HOTSPOT_CONN.lower() in names), and the like
service_status_flag(conn, names) == Lower(conn) \in names

\* What each comparison gives for profile `name` when the connection
\* manager knows (and has active) the one profile `stored`.
Comparisons(name, stored, primary_ok, fallback_ok) ==
    LET names == active_connection_names(TRUE, {stored}).names IN
      [wait |-> StableCond(NormTargets({name}), {}, names),
       flag |-> service_status_flag(name, names),
       has |-> HasConnection(name, primary_ok, fallback_ok, {stored})]

CompareNames ==
    \E primary_ok \in BOOLEAN, fallback_ok \in BOOLEAN :
      Apply("compare",
            [a |-> Comparisons(calc.a, calc.stored, primary_ok, fallback_ok),
             b |-> Comparisons(calc.b, calc.stored, primary_ok, fallback_ok)])

InitNames ==
    /\ Idle
    /\ \E a \in Names, b \in Names, stored \in Names :
          calc = [fn |-> "compare", a |-> a, b |-> b, stored |-> stored,
                  done |-> FALSE, out |-> << >>]

SpecNames == InitNames /\ [][CompareNames]_vars

---------------------------------------------------------------------------
(* classify_security: the label of one block of the scan dump.  A block is *)
(* seen through what the function searches it for.                         *)

Markers ==
    {"RSN", "WPA", "Privacy", "SAE", "PSK", "802.1X", "OWE", "GCMP-256", "suite 9/13"}

classify_security_psk_before_sae(t) ==
    IF "OWE" \in t THEN "OWE (no password)"
    ELSE IF "RSN" \in t \/ "WPA" \in t
    THEN IF "802.1X" \in t
         THEN IF "GCMP-256" \in t \/ "suite 9/13" \in t
              THEN "WPA3-Enterprise" ELSE "WPA2-Enterprise"
         ELSE IF "PSK" \in t THEN "WPA2"
         ELSE IF "SAE" \in t THEN "WPA3"
         ELSE IF "WPA" \in t /\ "RSN" \notin t THEN "WPA"
         ELSE "secured"
    ELSE IF "Privacy" \in t THEN "WEP"
    ELSE "open"

classify_security_legacy_wpa_first(t) ==
    IF "OWE" \in t THEN "OWE (no password)"
    ELSE IF "RSN" \in t \/ "WPA" \in t
    THEN IF "802.1X" \in t
         THEN IF "GCMP-256" \in t \/ "suite 9/13" \in t
              THEN "WPA3-Enterprise" ELSE "WPA2-Enterprise"
         ELSE IF "WPA" \in t THEN "WPA"
         ELSE IF "SAE" \in t THEN "WPA3"
         ELSE IF "PSK" \in t THEN "WPA2"
         ELSE "secured"
    ELSE IF "Privacy" \in t THEN "WEP"
    ELSE "open"

classify_security_unknown_without_suite(t) ==
    IF "OWE" \in t THEN "OWE (no password)"
    ELSE IF "RSN" \in t \/ "WPA" \in t
    THEN IF "802.1X" \in t
         THEN IF "GCMP-256" \in t \/ "suite 9/13" \in t
              THEN "WPA3-Enterprise" ELSE "WPA2-Enterprise"
         ELSE IF "SAE" \in t THEN "WPA3"
         ELSE IF "PSK" \in t THEN "WPA2"
         ELSE IF "WPA" \in t /\ "RSN" \notin t THEN "WPA"
         ELSE "unknown"
    ELSE IF "Privacy" \in t THEN "WEP"
    ELSE "open"

classify_security(t) ==
    LET has_rsn == "RSN" \in t
        has_wpa == "WPA" \in t
        has_privacy == "Privacy" \in t
        akm_sae == "SAE" \in t
        akm_psk == "PSK" \in t
        akm_8021x == "802.1X" \in t
        akm_owe == "OWE" \in t
        has_gcmp256 == "GCMP-256" \in t
        akm_9_or_13 == "suite 9/13" \in t
    IN  IF akm_owe THEN "OWE (no password)"
        ELSE IF has_rsn \/ has_wpa
        THEN IF akm_8021x
             THEN IF has_gcmp256 \/ akm_9_or_13
                  THEN "WPA3-Enterprise" ELSE "WPA2-Enterprise"
             ELSE IF akm_sae THEN "WPA3"
             ELSE IF akm_psk THEN "WPA2"
             ELSE IF has_wpa /\ ~has_rsn THEN "WPA"
             ELSE "secured"
        ELSE IF has_privacy THEN "WEP"
        ELSE "open"

Classify == Apply("classify_security", classify_security(calc.block))

InitClassify ==
    /\ Idle
    /\ \E t \in SUBSET Markers :
          calc = [fn |-> "classify_security", block |-> t, done |-> FALSE, out |-> ""]

SpecClassify == InitClassify /\ [][Classify]_vars

---------------------------------------------------------------------------
(* dbm_to_pct.  A dBm value is held in quarters of a dBm, so that the      *)
(* halves round() has to decide come up: -74.75 dBm is -299.               *)

QuartersPerDbm == 4

\* The dBm values tried: DbmSpan dBm either side of -75 dBm.
DbmSpan == 30
Dbms == ((0 - 75 - DbmSpan) * QuartersPerDbm)..((DbmSpan - 75) * QuartersPerDbm)

\* round(n / d) of Python 3 for d > 0: to the nearest, a half to the even one
Round(n, d) ==
    LET f == n \div d
        r == n - f * d
    IN  IF 2 * r < d THEN f
        ELSE IF 2 * r > d THEN f + 1
        ELSE IF f % 2 = 0 THEN f ELSE f + 1

Min(a, b) == IF a < b THEN a ELSE b
Max(a, b) == IF a > b THEN a ELSE b

dbm_to_pct_unclamped(dbm) ==
    Round(2 * (dbm + 100 * QuartersPerDbm), QuartersPerDbm)

\* pct = int(round(2 * (v + 100))); str(min(100, max(0, pct))).  The text
\* of the result is held as the number it spells.
dbm_to_pct(dbm) ==
    LET pct == Round(2 * (dbm + 100 * QuartersPerDbm), QuartersPerDbm)
    IN  Min(100, Max(0, pct))

ToPct == Apply("dbm_to_pct", dbm_to_pct(calc.dbm))

InitDbm ==
    /\ Idle
    /\ \E dbm \in Dbms : calc = [fn |-> "dbm_to_pct", dbm |-> dbm, done |-> FALSE, out |-> -1]

SpecDbm == InitDbm /\ [][ToPct]_vars

---------------------------------------------------------------------------
(* parse_iw_scan_dump.  The dump arrives split into blocks, one per        *)
(* "BSS " line; a block is the sequence of its lines.  A line is its text, *)
(* with the number a signal line spells (float() of the matched digits)    *)
(* and what classify_security's searches find in it.                       *)

NoDbm == 1
Line(text, dbm, marks) == [text |-> text, dbm |-> dbm, marks |-> marks]

StartsWith(s, prefix) ==
    Len(prefix) <= Len(s) /\ SubSeq(s, 1, Len(prefix)) = prefix

\* s.split(":", 1)[0]
BeforeColon(s) ==
    IF \E i \in 1..Len(s) : s[i] = ":"
    THEN SubSeq(s, 1, (CHOOSE i \in 1..Len(s) :
                          s[i] = ":" /\ \A j \in 1..(i - 1) : s[j] # ":") - 1)
    ELSE s

\* len(ssid.encode("utf-8")): one character of the model's alphabet takes
\* two bytes
RECURSIVE Utf8Len(_)
Utf8Len(s) ==
    IF s = << >> THEN 0 ELSE (IF Head(s) = "é" THEN 2 ELSE 1) + Utf8Len(Tail(s))

\* str.isprintable(): of the model's alphabet the tab is not
IsPrintable(s) == \A i \in 1..Len(s) : s[i] # "\t"

_HEADER_PREFIX_BLACKLIST ==
    {<<"S", "u", "p", "p", "o", "r", "t", "e", "d", " ", "r", "a", "t", "e", "s">>,
     <<"E", "x", "t", "e", "n", "d", "e", "d", " ", "s", "u", "p", "p", "o", "r", "t", "e", "d", " ", "r", "a", "t", "e", "s">>,
     <<"c", "a", "p", "a", "b", "i", "l", "i", "t", "y">>,
     <<"D", "S", " ", "P", "a", "r", "a", "m", "e", "t", "e", "r", " ", "s", "e", "t">>,
     <<"H", "T", " ", "c", "a", "p", "a", "b", "i", "l", "i", "t", "i", "e", "s">>,
     <<"H", "T", " ", "o", "p", "e", "r", "a", "t", "i", "o", "n">>,
     <<"V", "H", "T", " ", "c", "a", "p", "a", "b", "i", "l", "i", "t", "i", "e", "s">>,
     <<"V", "H", "T", " ", "o", "p", "e", "r", "a", "t", "i", "o", "n">>,
     <<"H", "E", " ", "c", "a", "p", "a", "b", "i", "l", "i", "t", "i", "e", "s">>,
     <<"H", "E", " ", "o", "p", "e", "r", "a", "t", "i", "o", "n">>,
     <<"B", "S", "S", " ", "L", "o", "a", "d">>,
     <<"C", "o", "u", "n", "t", "r", "y">>}

MaxSsidBytes == 32

_valid_ssid(ssid) ==
    /\ ssid # << >>
    /\ Utf8Len(ssid) <= MaxSsidBytes
    /\ IsPrintable(ssid)
    /\ LET prefix == Strip(BeforeColon(ssid)) IN
         \A bad \in _HEADER_PREFIX_BLACKLIST : ~StartsWith(prefix, bad)

IsBlank(text) == Strip(text) = << >>

\* The first position at or after i that is flagged, 0 if none.
FirstLine(flags, i) ==
    IF \E k \in i..Len(flags) : flags[k]
    THEN CHOOSE k \in i..Len(flags) : flags[k] /\ \A j \in i..(k - 1) : ~flags[j]
    ELSE 0

IsSsidLine(ln) == StartsWith(LStrip(ln.text), <<"S", "S", "I", "D", ":">>)
IsSignalLine(ln) == StartsWith(LStrip(ln.text), <<"s", "i", "g", "n", "a", "l", ":">>) /\ ln.dbm # NoDbm
HasText(ln) == ~IsBlank(ln.text)

SsidLines(blk) == [k \in 1..Len(blk) |-> IsSsidLine(blk[k])]
SignalLines(blk) == [k \in 1..Len(blk) |-> IsSignalLine(blk[k])]
TextLines(blk) == [k \in 1..Len(blk) |-> HasText(blk[k])]

\* ssid_re = ^\s*SSID:\s*(.*)\s*$ and .strip(): the rest of the SSID line;
\* when that is blank the \s* after the colon runs over the line end and
\* the group takes the next line that has text
MatchSsid(blk) ==
    LET i == FirstLine(SsidLines(blk), 1) IN
      IF i = 0 THEN [found |-> FALSE, ssid |-> << >>]
      ELSE LET rest == Strip(SubSeq(LStrip(blk[i].text), 6, Len(LStrip(blk[i].text))))
               k == FirstLine(TextLines(blk), i + 1)
           IN  [found |-> TRUE,
                ssid |-> IF rest # << >> THEN rest
                         ELSE IF k = 0 THEN << >> ELSE Strip(blk[k].text)]

\* The signal of a record: "" or the digits of a percentage, held as << >>
\* or the one-element sequence of the number.
Unknown == << >>
Digits(n) == << n >>

\* sig_re.search(blk); dbm_to_pct(dbm) if dbm is not None else ""
SignalOf(blk) ==
    LET i == FirstLine(SignalLines(blk), 1) IN
      IF i = 0 THEN Unknown ELSE Digits(dbm_to_pct(blk[i].dbm))

MarkersOf(blk) == UNION { blk[i].marks : i \in 1..Len(blk) }

\* int(s) if s.isdigit() else -1
sigval(x) == IF x.signal # Unknown THEN x.signal[1] ELSE -1

Store_replacing_on_a_tie(results, rec) ==
    IF \E i \in 1..Len(results) : results[i].ssid = rec.ssid
    THEN LET i == CHOOSE i \in 1..Len(results) : results[i].ssid = rec.ssid IN
           IF sigval(rec) >= sigval(results[i])
           THEN [results EXCEPT ![i] = rec] ELSE results
    ELSE Append(results, rec)

\* results[ssid] = {...} when the SSID is new or the signal is stronger; a
\* dict keeps the place of a key that is assigned again
Store(results, rec) ==
    IF \E i \in 1..Len(results) : results[i].ssid = rec.ssid
    THEN LET i == CHOOSE i \in 1..Len(results) : results[i].ssid = rec.ssid IN
           IF sigval(rec) > sigval(results[i])
           THEN [results EXCEPT ![i] = rec] ELSE results
    ELSE Append(results, rec)

RECURSIVE Collect(_, _)
Collect(blocks, results) ==
    IF blocks = << >> THEN results
    ELSE LET blk == Head(blocks)
             m == MatchSsid(blk)
             rec == [ssid |-> m.ssid, signal |-> SignalOf(blk),
                     security |-> classify_security(MarkersOf(blk)), inuse |-> FALSE]
         IN  IF m.found /\ _valid_ssid(m.ssid)
             THEN Collect(Tail(blocks), Store(results, rec))
             ELSE Collect(Tail(blocks), results)

SortKey_unknown_as_zero(n) == IF n.signal # Unknown THEN n.signal[1] ELSE 0

\* key=lambda n: int(n["signal"]) if ... .isdigit() else -1
SortKey(n) == IF n.signal # Unknown THEN n.signal[1] ELSE -1

\* list.sort(key=..., reverse=True): stable, equal keys keep their order
RECURSIVE SortedInsert(_, _)
SortedInsert(sorted, n) ==
    IF sorted = << >> THEN << n >>
    ELSE IF SortKey(Head(sorted)) >= SortKey(n)
    THEN << Head(sorted) >> \o SortedInsert(Tail(sorted), n)
    ELSE << n >> \o sorted

RECURSIVE SortNets(_, _)
SortNets(nets, sorted) ==
    IF nets = << >> THEN sorted
    ELSE SortNets(Tail(nets), SortedInsert(sorted, Head(nets)))

\* cur_ssid is None, or the SSID of the connected interface
NoSsid == << >>

parse_iw_scan_dump(blocks, cur_ssid) ==
    LET nets == SortNets(Collect(blocks, << >>), << >>) IN
      [i \in 1..Len(nets) |->
         [nets[i] EXCEPT !.inuse = (cur_ssid # NoSsid /\ nets[i].ssid = cur_ssid)]]

ParseScan == Apply("parse_iw_scan_dump", parse_iw_scan_dump(calc.blocks, calc.cur))

\* Lines as iw prints them.
CapabilityLine(marks) ==
    IF "Privacy" \in marks
    THEN Line(<<"\t", "c", "a", "p", "a", "b", "i", "l", "i", "t", "y", ":", " ", "E", "S", "S", " ", "P", "r", "i", "v", "a", "c", "y">>, NoDbm, {"Privacy"})
    ELSE Line(<<"\t", "c", "a", "p", "a", "b", "i", "l", "i", "t", "y", ":", " ", "E", "S", "S">>, NoDbm, {})
SignalLine(dbm) ==
    Line(<<"\t", "s", "i", "g", "n", "a", "l", ":", " ">> \o
         (CASE dbm = (0 - 40) * QuartersPerDbm -> <<"-", "4", "0", ".", "0", "0">>
            [] dbm = (0 - 70) * QuartersPerDbm -> <<"-", "7", "0", ".", "0", "0">>
            [] OTHER -> <<"-", "1", "0", "0", ".", "0", "0">>) \o <<" ", "d", "B", "m">>, dbm, {})
SsidLine(value) == Line(<<"\t", "S", "S", "I", "D", ":", " ">> \o value, NoDbm, {})
RatesLine == Line(<<"\t", "S", "u", "p", "p", "o", "r", "t", "e", "d", " ", "r", "a", "t", "e", "s", ":", " ", "1", ".", "0", "*">>, NoDbm, {})
ErpLine == Line(<<"\t", "E", "R", "P", ":", " ", "B", "a", "r", "k", "e", "r", "_", "P", "r", "e", "a", "m", "b", "l", "e", "_", "M", "o", "d", "e">>, NoDbm, {})
\* The lines of the security elements, in the order iw prints them; each
\* holds one of the things classify_security searches for.
SecurityLines ==
    << Line(<<"\t", "R", "S", "N", ":", "\t", " ", "*", " ", "V", "e", "r", "s", "i", "o", "n", ":", " ", "1">>,
            NoDbm, {"RSN"}),
       Line(<<"\t", "W", "P", "A", ":", "\t", " ", "*", " ", "V", "e", "r", "s", "i", "o", "n", ":", " ", "1">>,
            NoDbm, {"WPA"}),
       Line(<<"\t", "\t", " ", "*", " ", "P", "a", "i", "r", "w", "i", "s", "e", " ", "c", "i", "p", "h", "e", "r", "s", ":", " ", "G", "C", "M", "P", "-", "2", "5", "6">>,
            NoDbm, {"GCMP-256"}),
       Line(<<"\t", "\t", " ", "*", " ", "A", "u", "t", "h", "e", "n", "t", "i", "c", "a", "t", "i", "o", "n", " ", "s", "u", "i", "t", "e", "s", ":", " ", "P", "S", "K">>,
            NoDbm, {"PSK"}),
       Line(<<"\t", "\t", " ", "*", " ", "A", "u", "t", "h", "e", "n", "t", "i", "c", "a", "t", "i", "o", "n", " ", "s", "u", "i", "t", "e", "s", ":", " ", "S", "A", "E">>,
            NoDbm, {"SAE"}),
       Line(<<"\t", "\t", " ", "*", " ", "A", "u", "t", "h", "e", "n", "t", "i", "c", "a", "t", "i", "o", "n", " ", "s", "u", "i", "t", "e", "s", ":", " ", "I", "E", "E", "E", " ", "8", "0", "2", ".", "1", "X">>,
            NoDbm, {"802.1X"}),
       Line(<<"\t", "\t", " ", "*", " ", "A", "u", "t", "h", "e", "n", "t", "i", "c", "a", "t", "i", "o", "n", " ", "s", "u", "i", "t", "e", "s", ":", " ", "O", "W", "E">>,
            NoDbm, {"OWE"}),
       Line(<<"\t", "\t", " ", "*", " ", "A", "u", "t", "h", "e", "n", "t", "i", "c", "a", "t", "i", "o", "n", " ", "s", "u", "i", "t", "e", "s", ":", " ", "0", "0", "-", "0", "f", "-", "a", "c", ":", "1", "3">>,
            NoDbm, {"suite 9/13"}) >>

RsnLine == SecurityLines[1]

\* The security lines of a block with these markers, in order.
SecurityLinesOf(marks) ==
    LET F[i \in 0..Len(SecurityLines)] ==
          IF i = 0 THEN << >>
          ELSE IF SecurityLines[i].marks \subseteq marks
          THEN Append(F[i - 1], SecurityLines[i]) ELSE F[i - 1]
    IN  F[Len(SecurityLines)]

\* A block: capability, signal, SSID, what follows the SSID, security.
\* ssid and follower hold no element when the block lacks that line.
Block(ssid, follower, dbm, marks) ==
    << CapabilityLine(marks) >>
    \o (IF dbm = NoDbm THEN << >> ELSE << SignalLine(dbm) >>)
    \o [i \in 1..Len(ssid) |-> SsidLine(ssid[i])]
    \o follower
    \o SecurityLinesOf(marks)

Home == <<"H", "o", "m", "e">>
Cafe == <<"C", "a", "f", "e">>

SignalsTried == {NoDbm} \cup { (0 - v) * QuartersPerDbm : v \in {40, 70, 100} }
MarksTried == { {}, {"RSN"}, {"RSN", "PSK"} }

\* Well-formed blocks of two networks, several access points each.
GoodBlocks ==
    { Block(<< n >>, << RatesLine >>, dbm, marks) :
        n \in {Home, Cafe}, dbm \in SignalsTried, marks \in MarksTried }

MaxBlocks == 2

\* One network with each combination of security markers.
MarkedBlocks ==
    { Block(<< Home >>, << RatesLine >>, NoDbm, marks) : marks \in SUBSET Markers }

InitParse ==
    /\ Idle
    /\ \E n \in 0..MaxBlocks :
         \E blocks \in [1..n -> GoodBlocks] \cup { << b >> : b \in MarkedBlocks },
            cur \in {NoSsid, Home} :
            calc = [fn |-> "parse_iw_scan_dump", blocks |-> blocks, cur |-> cur,
                    done |-> FALSE, out |-> << >>]

SpecParse == InitParse /\ [][ParseScan]_vars

\* One block, with the SSID lines and the following lines that put
\* _valid_ssid to the test.
SsidsTried ==
    { << >>, << << >> >>, << <<" ">> >>, << Home >>,
      << [i \in 1..MaxSsidBytes |-> "x"] >>, << [i \in 1..(MaxSsidBytes + 1) |-> "x"] >>,
      << [i \in 1..(MaxSsidBytes \div 2) |-> "é"] >>,
      << [i \in 1..(MaxSsidBytes \div 2 + 1) |-> "é"] >>,
      << <<"a", "\t", "b">> >>, << <<"c", "a", "p", "a", "b", "i", "l", "i", "t", "y", ":", " ", "f", "o", "o">> >> }
FollowersTried == { << >>, << RatesLine >>, << ErpLine >> }

InitSsid ==
    /\ Idle
    /\ \E ssid \in SsidsTried, follower \in FollowersTried,
          dbm \in SignalsTried, marks \in MarksTried :
            calc = [fn |-> "parse_iw_scan_dump",
                    blocks |-> << Block(ssid, follower, dbm, marks) >>,
                    cur |-> NoSsid, done |-> FALSE, out |-> << >>]

SpecSsid == InitSsid /\ [][ParseScan]_vars

---------------------------------------------------------------------------
(* config.py _ntp_last_peer.  A line of `ntpq -pn` is its tally character  *)
(* (column 0), the remote that follows it, whether it has the seven        *)
(* columns up to reach, and the text of its reach column.                  *)

PeerLine(tally, remote, full, reach) ==
    [tally |-> tally, remote |-> remote, full |-> full, reach |-> reach]

\* The text a line begins with.
LineStart(ln) == <<ln.tally>> \o ln.remote

\* ln.lstrip().startswith(chars)
LStripStartsWith(ln, chars) ==
    LET t == LStrip(LineStart(ln)) IN t # << >> /\ Head(t) \in chars

OctalDigits == <<"0", "1", "2", "3", "4", "5", "6", "7">>

\* int(text, 8); ValueError for an empty text or a character that is no
\* octal digit
RECURSIVE Octal(_, _)
Octal(text, acc) ==
    IF text = << >> THEN [raised |-> FALSE, value |-> acc]
    ELSE IF \E d \in 1..8 : OctalDigits[d] = Head(text)
    THEN Octal(Tail(text),
               8 * acc + (CHOOSE d \in 1..8 : OctalDigits[d] = Head(text)) - 1)
    ELSE [raised |-> TRUE, value |-> 0]

\* len(cols) >= 7 and int(cols[6], 8) > 0, an exception counting as no
ReachNonZero(ln) ==
    /\ ln.full
    /\ ln.reach # << >>
    /\ ~Octal(ln.reach, 0).raised
    /\ Octal(ln.reach, 0).value > 0

\* the index of the line pick_best returns, 0 for None
pick_best(lines) ==
    LET n == Len(lines)
        star == FirstLine([k \in 1..n |-> LStripStartsWith(lines[k], {"*"})], 1)
        cand == FirstLine([k \in 1..n |-> LStripStartsWith(lines[k], {"+", "o"})], 1)
        reach == FirstLine([k \in 1..n |-> ReachNonZero(lines[k])], 1)
    IN  IF star # 0 THEN star
        ELSE IF cand # 0 THEN cand
        ELSE IF reach # 0 THEN reach
        ELSE IF n > 0 THEN 1 ELSE 0

\* [ln for ln in out.splitlines()
\*     if ln.strip() and not ln.startswith(("remote", "="))]
data_lines(output) ==
    LET Keep(ln) ==
          /\ Strip(LineStart(ln)) # << >>
          /\ ~StartsWith(LineStart(ln), <<"r","e","m","o","t","e">>)
          /\ ~StartsWith(LineStart(ln), <<"=">>)
    IN  SelectSeq(output, Keep)

\* str.lstrip("*#+o-")
RECURSIVE LStripChars(_, _)
LStripChars(text, chars) ==
    IF text # << >> /\ Head(text) \in chars THEN LStripChars(Tail(text), chars)
    ELSE text

NotAvailable == [na |-> TRUE, chosen |-> PeerLine(" ", << >>, FALSE, << >>),
                 remote |-> << >>]

\* _ntp_last_peer up to `remote`: the line chosen among data_lines and its
\* first column without the leading tally characters; n/a when the query
\* fails or nothing is chosen.  The address is searched in that remote and
\* resolved afterwards.
_ntp_last_peer(outcome, output) ==
    LET query == Except(CheckOutput(outcome), {"Exception"})
        lines == data_lines(output)
        k == pick_best(lines)
    IN  IF ~query.result.set \/ k = 0 THEN NotAvailable
        ELSE [na |-> FALSE, chosen |-> lines[k],
              remote |-> LStripChars(LStrip(LineStart(lines[k])),
                                     {"*", "#", "+", "o", "-"})]

NtpLastPeer ==
    \E outcome \in Outcomes :
      Apply("_ntp_last_peer",
            [outcome |-> outcome, peer |-> _ntp_last_peer(outcome, calc.output)])

\* The two lines ntpq prints above the peers: the column titles, centred
\* over their columns, and the rule.
TitleLine ==
    PeerLine(" ", <<" "," "," "," ","r","e","m","o","t","e">>, TRUE,
             <<"r","e","a","c","h">>)
RuleLine == PeerLine("=", <<"=","=">>, FALSE, << >>)

\* Peers: the system peer, a candidate, the PPS peer, an outlier, one never
\* heard, one heard (reach 10 octal), a line cut short, and a pool entry,
\* which ntpq lists under its name.
PeersTried ==
    { PeerLine("*", <<"1">>, TRUE, <<"3","7","7">>),
      PeerLine("+", <<"2">>, TRUE, <<"3","7","7">>),
      PeerLine("o", <<"3">>, TRUE, <<"3","7","7">>),
      PeerLine("-", <<"4">>, TRUE, <<"3","7","7">>),
      PeerLine(" ", <<"5">>, TRUE, <<"0">>),
      PeerLine(" ", <<"6">>, TRUE, <<"1","0">>),
      PeerLine(" ", <<"7">>, FALSE, << >>),
      PeerLine(" ", <<"o","c","e","a","n","i","a">>, TRUE, <<"0">>) }

MaxPeers == 2

InitNtp ==
    /\ Idle
    /\ \E titled \in BOOLEAN, n \in 0..MaxPeers :
         \E peers \in [1..n -> PeersTried] :
            /\ titled => n > 0
            /\ calc = [fn |-> "_ntp_last_peer",
                    output |-> (IF titled THEN <<TitleLine, RuleLine>> ELSE << >>)
                               \o peers,
                    done |-> FALSE, out |-> << >>]

SpecNtp == InitNtp /\ [][NtpLastPeer]_vars

---------------------------------------------------------------------------
(* The wait alone: one call with any targets and any timeout, against an   *)
(* active set that may change between any two polls.                       *)

InitWait ==
    /\ active \in SUBSET {WG_CONN, TOR_CONN}
    /\ wg_profile = [exists |-> TRUE, autoconnect |-> FALSE]
    /\ hotspot_profile = [ssid |-> HOTSPOT_CONN, key_mgmt |-> "none", psk |-> <<>>]
    /\ h = [p \in Procs |-> IdleFrame]
    /\ \E tp \in SUBSET {WG_CONN}, ta \in SUBSET {TOR_CONN}, t \in 0..MaxTimeout :
          w = [p \in Procs |->
                 IF p = "p1"
                 THEN [EnterWait(tp, ta, t) EXCEPT !.recording = TRUE]
                 ELSE IdleWait]
    /\ resp = [p \in Procs |-> NoResp]
    /\ log = [p \in Procs |-> <<>>]
    /\ drifts = 0
    /\ calc = NoCalc

\* The connection manager changes the active set on its own (flapping).
Flap ==
    /\ \E n \in {WG_CONN, TOR_CONN} :
          active' = IF n \in active THEN active \ {n} ELSE active \cup {n}
    /\ UNCHANGED <<wg_profile, hotspot_profile, h, w, resp, log, drifts, calc>>

NextWait == _wait_nm_state_exact("p1") \/ Flap

SpecWait == InitWait /\ [][NextWait]_vars

\* Each status poll returns and the clock advances.
SpecWaitFair == SpecWait /\ WF_vars(_wait_nm_state_exact("p1"))

---------------------------------------------------------------------------
(* Claims about the wait alone (SpecWait) *)

Wait1 == w["p1"]
LastPoll(wf) == Len(wf.hist)
AllMisses(hist) == \A i \in 1..Len(hist) : ~hist[i]

\* C1: settled=True is returned only at a poll where the stable condition
\* held at that poll and at the one right before it; after a failing poll the
\* hit count is zero; and when the condition first holds on polls 3 and 4,
\* a wait that gets that far returns settled=True at poll 4, not before.
C1_TwoConsecutiveHits ==
    \A p \in Procs :
      LET wf == w[p]  n == LastPoll(wf) IN
        /\ (wf.state = "returned" /\ wf.settled) =>
              /\ n >= 2 /\ wf.hist[n] /\ wf.hist[n - 1]
              /\ StableCond(wf.present, wf.absent, wf.names)
        /\ (wf.state = "polling" /\ n >= 1 /\ ~wf.hist[n]) => wf.stable_hits = 0
        /\ (n >= 3 /\ SubSeq(wf.hist, 1, 3) = <<FALSE, FALSE, TRUE>>) =>
              ~(wf.state = "returned" /\ wf.settled /\ n = 3)
        /\ (n >= 4 /\ SubSeq(wf.hist, 1, 4) = <<FALSE, FALSE, TRUE, TRUE>>) =>
              (wf.state = "returned" /\ wf.settled /\ n = 4)

C1_Witness ==
    /\ Wait1.state = "returned" /\ Wait1.settled
    /\ Wait1.hist = <<FALSE, FALSE, TRUE, TRUE>>

\* C2: a wait whose status source never reaches the target state does not
\* raise; it returns settled=False once the timeout has elapsed, with the
\* set observed at the last poll it made.
C2_TimeoutReturnsLastSnapshot ==
    \A p \in Procs :
      LET wf == w[p] IN
        /\ wf.state # "raised"
        /\ (wf.state = "returned" /\ AllMisses(wf.hist)) => ~wf.settled
        /\ (wf.state = "returned" /\ ~wf.settled) =>
              /\ LastPoll(wf) >= 1
              /\ wf.elapsed >= wf.timeout
              /\ wf.names = wf.polled

C2_Witness ==
    /\ Wait1.state = "returned" /\ ~Wait1.settled
    /\ LastPoll(Wait1) >= 3 /\ AllMisses(Wait1.hist)
    /\ Wait1.names # {}

\* C6: every call of the wait terminates, settled or timed out, whatever the
\* active set does (each status poll returns and the clock advances).
C6_WaitTerminates == <>(Wait1.state = "returned")

\* A flapping source: the condition holds on every other poll until the
\* timeout ends the wait.
C6_Witness ==
    /\ Wait1.state = "returned" /\ ~Wait1.settled
    /\ Wait1.hist = <<TRUE, FALSE, TRUE, FALSE, TRUE>>

---------------------------------------------------------------------------
(* Claims about the toggle handlers (Spec, SpecConcurrent) *)

Lc(name) == Lower(Strip(name))

\* The order of external steps the mutual exclusion is claimed to follow.
ClaimedOrder(ep) ==
    IF ep = "wg/up"
    THEN << [op |-> "down", name |-> TOR_CONN],
            [op |-> "wait", present |-> {}, absent |-> {Lc(TOR_CONN)}],
            [op |-> "autoconnect", name |-> WG_CONN],
            [op |-> "up", name |-> WG_CONN],
            [op |-> "wait", present |-> {Lc(WG_CONN)}, absent |-> {Lc(TOR_CONN)}] >>
    ELSE << [op |-> "down", name |-> WG_CONN],
            [op |-> "wait", present |-> {}, absent |-> {Lc(WG_CONN)}],
            [op |-> "up", name |-> TOR_CONN],
            [op |-> "wait", present |-> {Lc(TOR_CONN)}, absent |-> {Lc(WG_CONN)}] >>

SameStep(entry, claimed) ==
    /\ entry.op = claimed.op
    /\ IF claimed.op = "wait"
       THEN entry.present = claimed.present /\ entry.absent = claimed.absent
       ELSE entry.name = claimed.name

\* C3: in wg/up and tor/up the steps down(competitor), wait(competitor
\* absent), up(requested), wait(requested present, competitor absent) happen
\* strictly in that order within one request, and no command is issued while
\* a wait is in progress.
C3_DownWaitUpWaitInOrder ==
    \A p \in Procs :
      h[p].ep \in {"wg/up", "tor/up"} =>
        LET claimed == ClaimedOrder(h[p].ep)  n == Len(log[p]) IN
          /\ n <= Len(claimed)
          /\ \A i \in 1..n : SameStep(log[p][i], claimed[i])
          /\ w[p].state = "polling" => (n < Len(claimed) /\ claimed[n + 1].op = "wait")

C3_Witness ==
    /\ h["p1"].ep = "wg/up" /\ h["p1"].phase = "done"
    /\ resp["p1"].status = 200 /\ Len(log["p1"]) = 5

\* The names in the "active" list of a response.
Listed(r) == { r.active[i] : i \in 1..Len(r.active) }

\* C4: after wg/up requested while the proxy was active, the
\* response's active set holds the VPN profile and not the proxy profile.
C4_ActiveIsVpnOnly ==
    \A p \in Procs :
      (/\ h[p].ep = "wg/up" /\ h[p].phase = "done" /\ resp[p].status # 404
       /\ TOR_CONN \in h[p].active0)
      => (Lc(WG_CONN) \in Listed(resp[p]) /\ Lc(TOR_CONN) \notin Listed(resp[p]))

\* C4 (amended): the same, for the responses that report settled=true.
C4_SettledActiveIsVpnOnly ==
    \A p \in Procs :
      (/\ h[p].ep = "wg/up" /\ h[p].phase = "done" /\ resp[p].status # 404
       /\ TOR_CONN \in h[p].active0 /\ resp[p].settled)
      => (Lc(WG_CONN) \in Listed(resp[p]) /\ Lc(TOR_CONN) \notin Listed(resp[p]))

C4_Witness ==
    /\ h["p1"].ep = "wg/up" /\ h["p1"].phase = "done"
    /\ TOR_CONN \in h["p1"].active0
    /\ resp["p1"].status = 200 /\ resp["p1"].settled
    /\ resp["p1"].active = <<Lc(WG_CONN)>>

\* C5: the handlers take no lock.  wg/up and tor/up handled at once, both
\* deactivate commands issued before both activate commands and both
\* activate commands successful: both handlers return and both the VPN and
\* the proxy profile are active.
C5_BothServicesEndUpActive ==
    (/\ \A p \in Procs : h[p].phase = "done" /\ resp[p].ok /\ h[p].peer_down_first
     /\ h["p1"].ep = "wg/up" /\ h["p2"].ep = "tor/up")
    => {WG_CONN, TOR_CONN} \subseteq active

C5_Witness ==
    /\ \A p \in Procs :
          h[p].phase = "done" /\ resp[p].status = 200 /\ h[p].peer_down_first
    /\ h["p1"].ep = "wg/up" /\ h["p2"].ep = "tor/up"
    /\ {WG_CONN, TOR_CONN} \subseteq active

\* C9: a timeout, a missing binary or a non-zero exit of an external command
\* never leaves a request handler as an unhandled exception.
C9_NoFailureEscapesAHandler ==
    \A p \in Procs : ~resp[p].unhandled

\* The waits a request has returned from, and those it has entered.
RECURSIVE CountWaits(_)
CountWaits(entries) ==
    IF entries = << >> THEN 0
    ELSE (IF Head(entries).op = "wait" THEN 1 ELSE 0) + CountWaits(Tail(entries))

WaitsReturned(p) == CountWaits(log[p])
WaitsEntered(p) == WaitsReturned(p) + (IF w[p].state = "polling" THEN 1 ELSE 0)

AllToggles == ToggleEndpoints \cup {"hotspot/up", "hotspot/down"}

C9_Witness ==
    /\ h["p1"].ep = "wg/up" /\ h["p1"].phase = "crashed"
    /\ resp["p1"].unhandled /\ resp["p1"].status = 500
    /\ log["p1"][Len(log["p1"])] = [op |-> "up", name |-> WG_CONN, end |-> "raised"]

\* The first wait of wg/up or tor/up has returned, and the activate
\* command has been issued.
FirstWaitReturned(p) == Len(log[p]) >= 2 /\ log[p][2].op = "wait"
Requested(ep) == IF ep = "wg/up" THEN WG_CONN ELSE TOR_CONN
Competitor(ep) == IF ep = "wg/up" THEN TOR_CONN ELSE WG_CONN
UpIssued(p) ==
    \E i \in 1..Len(log[p]) :
       log[p][i].op = "up" /\ log[p][i].name = Requested(h[p].ep)

\* C25: in wg/up and tor/up, once the first wait has returned the handler
\* goes on to the activate command, whether that wait settled or not and
\* whether the deactivate command exited 0 or not.
C25_ActivationWhateverTheFirstWaitGave ==
    \A p \in Procs :
      (h[p].ep \in {"wg/up", "tor/up"} /\ FirstWaitReturned(p)) =>
         /\ h[p].phase = "done" => UpIssued(p)
         /\ (h[p].phase = "running" /\ ~UpIssued(p)) =>
               Step(p).op \in {"autoconnect", "up"}

\* wg/up: the deactivate command failed, the first wait returned False with
\* the proxy still active, and the handler went on: autoconnect is set and
\* the activate command comes next.
C25_Witness ==
    /\ h["p1"].ep = "wg/up" /\ h["p1"].phase = "running" /\ drifts = 0
    /\ Len(log["p1"]) = 3
    /\ log["p1"][1].end = "exit non-zero"
    /\ log["p1"][2].op = "wait" /\ ~w["p1"].settled
    /\ log["p1"][3].op = "autoconnect" /\ log["p1"][3].end = "exit 0"
    /\ Step("p1").op = "up" /\ TOR_CONN \in active

---------------------------------------------------------------------------
(* Claims about all toggle endpoints (SpecToggles) *)

Answered(p) == resp[p].status # 0

\* The up or down command a toggle endpoint reports on.
OwnCommand(ep) ==
    CASE ep = "wg/up" -> [op |-> "up", name |-> WG_CONN]
      [] ep \in {"wg/down", "wg/down_keep_auto"} -> [op |-> "down", name |-> WG_CONN]
      [] ep = "tor/up" -> [op |-> "up", name |-> TOR_CONN]
      [] ep = "tor/down" -> [op |-> "down", name |-> TOR_CONN]
      [] ep = "hotspot/up" -> [op |-> "up", name |-> HOTSPOT_CONN]
      [] OTHER -> [op |-> "down", name |-> HOTSPOT_CONN]

\* Where the log of p has that command, and where its last wait; 0 if not.
CommandAt(p) ==
    FirstLine([k \in 1..Len(log[p]) |->
                 /\ log[p][k].op = OwnCommand(h[p].ep).op
                 /\ log[p][k].name = OwnCommand(h[p].ep).name], 1)
LastWaitAt(p) ==
    LET at == { k \in 1..Len(log[p]) : log[p][k].op = "wait" } IN
      IF at = {} THEN 0 ELSE CHOOSE k \in at : \A j \in at : j <= k

\* The response reports the exit status of the command, and the result of
\* the wait that followed it.
ReportsCommandAndWait(p) ==
    LET c == CommandAt(p)  wt == LastWaitAt(p) IN
      /\ c # 0
      /\ log[p][c].end \in {"exit 0", "exit non-zero"}
      /\ resp[p].status = (IF log[p][c].end = "exit 0" THEN 200 ELSE 500)
      /\ wt > c
      /\ resp[p].settled = w[p].settled
      /\ resp[p].active = sorted_names(h[p].names)

\* C26: every toggle endpoint (hotspot/up after validation) answers 200 if
\* and only if its up/down command exited 0 and 500 otherwise, whatever the
\* settled flag; the wait is run also after a command that exited non-zero,
\* and the response always carries settled and the sorted active set last
\* observed.
C26_StatusIsTheExitStatus ==
    \A p \in Procs :
      (/\ h[p].ep \in AllToggles /\ Answered(p)
       /\ ~(h[p].ep = "hotspot/up" /\ resp[p].status = 400))
      => ReportsCommandAndWait(p)

\* C26 (amended): the same once the command has returned an exit status.
\* wg/up and wg/down_keep_auto answer 404 without having run anything when
\* the VPN profile is missing, hotspot/up answers 400 before its command,
\* and a command that raises ends the request in a bare 500.
C26_StatusIsTheExitStatusOnceTheCommandRan ==
    \A p \in Procs :
      (h[p].ep \in AllToggles /\ Answered(p)) =>
         CASE resp[p].status = 404 ->
                /\ h[p].ep \in {"wg/up", "wg/down_keep_auto"}
                /\ log[p] = << >> /\ resp[p].configured = "no"
           [] resp[p].status = 400 ->
                h[p].ep = "hotspot/up" /\ CommandAt(p) = 0
           [] resp[p].unhandled ->
                /\ resp[p].status = 500
                /\ log[p][Len(log[p])].end = "raised"
           [] OTHER -> ReportsCommandAndWait(p)

\* tor/down: the command exited non-zero, the wait ran all the same and
\* settled, and the answer is 500 with settled=true.
C26_Witness ==
    /\ h["p1"].ep = "tor/down" /\ h["p1"].phase = "done"
    /\ log["p1"][1].end = "exit non-zero" /\ Len(log["p1"]) = 2
    /\ resp["p1"].status = 500 /\ resp["p1"].settled

\* Where the log of p has the autoconnect command, 0 if it has none.
AutoconnectAt(p) ==
    FirstLine([k \in 1..Len(log[p]) |-> log[p][k].op = "autoconnect"], 1)

\* C28: the VPN profile's autoconnect is changed by wg/up and wg/down only.
\* wg/up sets it to yes before its activate command and it stays at yes
\* when the activation fails; wg/down sets it to no after its wait, also
\* when the deactivation failed or did not settle; every other toggle
\* endpoint leaves it as it was.  (The command is best effort: the setting
\* changes when the command exits 0.)
C28_AutoconnectChangedByWgUpAndWgDownOnly ==
    \A p \in Procs :
      LET a == AutoconnectAt(p)  c == CommandAt(p)  n == Len(log[p]) IN
        h[p].ep \in AllToggles =>
          /\ h[p].ep \notin {"wg/up", "wg/down"} =>
                a = 0 /\ wg_profile.autoconnect = h[p].autoconnect0
          /\ a = 0 => wg_profile.autoconnect = h[p].autoconnect0
          /\ a # 0 =>
                /\ log[p][a].name = WG_CONN
                /\ \A k \in 1..n : log[p][k].op = "autoconnect" => k = a
                /\ wg_profile.autoconnect =
                      (IF log[p][a].end = "exit 0" THEN h[p].ep = "wg/up"
                       ELSE h[p].autoconnect0)
          /\ h[p].ep = "wg/up" => (c # 0 => (a # 0 /\ a < c))
          /\ h[p].ep = "wg/down" =>
                /\ a # 0 => (LastWaitAt(p) # 0 /\ LastWaitAt(p) < a)
                /\ (h[p].phase = "done") => a # 0

\* tor/up has answered 200 and the VPN profile still has autoconnect on.
C28_Witness ==
    /\ h["p1"].ep = "tor/up" /\ h["p1"].phase = "done" /\ resp["p1"].status = 200
    /\ wg_profile.exists /\ wg_profile.autoconnect

\* C29: when the VPN profile does not exist, wg/up and wg/down_keep_auto
\* answer 404 with configured=false; they run no command and no wait, and
\* the active set, the autoconnect setting and the hotspot profile are as
\* they were when the request arrived.
C29_MissingProfileIs404AndNothingRuns ==
    \A p \in Procs :
      (h[p].ep \in {"wg/up", "wg/down_keep_auto"} /\ ~wg_profile.exists) =>
         /\ log[p] = << >>
         /\ w[p].state = "idle"
         /\ h[p].pc = 1
         /\ active = h[p].active0
         /\ wg_profile.autoconnect = h[p].autoconnect0
         /\ hotspot_profile = h[p].hotspot0
         /\ h[p].phase = "done" =>
               /\ resp[p].status = 404 /\ resp[p].configured = "no"
               /\ ~resp[p].ok

\* wg/up without a VPN profile while the proxy is active: 404, and the
\* proxy is still active.
C29_Witness ==
    /\ h["p1"].ep = "wg/up" /\ h["p1"].phase = "done" /\ ~wg_profile.exists
    /\ resp["p1"].status = 404 /\ resp["p1"].configured = "no"
    /\ TOR_CONN \in active /\ log["p1"] = << >>

---------------------------------------------------------------------------
(* Claims about hotspot configuration and Wi-Fi connect (SpecHotspot) *)

HotspotForm(p) == h[p].ep \in {"hotspot/config", "hotspot/up"}
Ran(p, op) == \E i \in 1..Len(log[p]) : log[p][i].op = op

\* _nm_modify_hotspot_psk was called: its first command was run.
PskModifyInvoked(p) == Ran(p, "modify_key_mgmt")

OutsidePolicy(password) == Len(password) < 8 \/ Len(password) > 63

\* C7: a request rejected for a validation error (bad password length,
\* missing SSID) is rejected before any external tool has run: no command
\* was issued and the hotspot profile is as it was when the request arrived.
C7_RejectedBeforeAnyTool ==
    \A p \in Procs :
      (/\ h[p].phase = "done"
       /\ \/ HotspotForm(p) /\ resp[p] = PasswordLengthError
          \/ h[p].ep = "submit" /\ resp[p].error = "no ssid")
      => (log[p] = << >> /\ hotspot_profile = h[p].hotspot0)

\* The SSID was set, then the password was rejected for its length.
C7_Witness ==
    /\ h["p1"].ep = "hotspot/config" /\ h["p1"].phase = "done"
    /\ resp["p1"] = PasswordLengthError
    /\ Ran("p1", "modify_ssid")
    /\ hotspot_profile.ssid # h["p1"].hotspot0.ssid

\* C8: for every non-empty password, a length outside 8..63 is
\* answered 400 with the length message and the PSK modify is never invoked,
\* and a length within 8..63 invokes the PSK modify.
C8_PolicyForEveryPassword ==
    \A p \in Procs :
      LET password == FormGet(h[p].form, "password") IN
        (HotspotForm(p) /\ h[p].phase = "done" /\ password # << >>) =>
          IF OutsidePolicy(password)
          THEN resp[p] = PasswordLengthError /\ ~PskModifyInvoked(p)
          ELSE PskModifyInvoked(p)

\* The length message is not what a too-short password is answered with
\* when the SSID sent along with it could not be set.
C8_Witness ==
    /\ h["p1"].ep = "hotspot/config" /\ h["p1"].phase = "done"
    /\ Len(FormGet(h["p1"].form, "password")) = MinPskLen - 1
    /\ Ran("p1", "modify_ssid")
    /\ resp["p1"].status = 400 /\ resp["p1"] # PasswordLengthError

\* A command of the request exited non-zero.
ExitedNonZero(p) == \E i \in 1..Len(log[p]) : log[p][i].end = "exit non-zero"

\* The 4xx answers to what the client sent.
ValidationError(p) ==
    \/ resp[p] = PasswordLengthError
    \/ h[p].ep = "submit" /\ resp[p].error = "no ssid"

\* C11: an action endpoint answers 5xx whenever a command it ran exited
\* non-zero, 4xx only for a validation error, and 2xx when the request
\* succeeded.
C11_NonZeroExitIs5xx ==
    \A p \in Procs :
      (h[p].ep \in HotspotEndpoints /\ h[p].phase = "done") =>
        /\ ExitedNonZero(p) => resp[p].status >= 500
        /\ resp[p].status \in 400..499 => ValidationError(p)
        /\ (resp[p].status \in 200..299) = resp[p].ok

\* The SSID modify of hotspot/config exited non-zero and the answer is 400.
C11_Witness ==
    /\ h["p1"].ep = "hotspot/config" /\ h["p1"].phase = "done"
    /\ ExitedNonZero("p1") /\ Ran("p1", "modify_ssid")
    /\ resp["p1"].status = 400 /\ ~ValidationError("p1")


\* What p has run so far of the given kinds.
RanAny(p, ops) == \E k \in 1..Len(log[p]) : log[p][k].op \in ops
Modifications == {"modify_ssid", "modify_key_mgmt", "modify_psk"}

\* C30: hotspot/up answering 400 (the SSID modify failed, the password
\* length is outside 8-63, or a PSK modify failed) has issued neither the
\* activate command nor a wait; the activate command is issued only after
\* every requested modification exited 0.
C30_NoActivationOn400 ==
    \A p \in Procs :
      h[p].ep = "hotspot/up" =>
        LET form == h[p].form
            ssid == Strip(FormGet(form, "ssid"))
            password == FormGet(form, "password")
        IN  /\ resp[p].status = 400 =>
                 /\ ~RanAny(p, {"up", "wait"})
                 /\ w[p].state = "idle"
                 /\ \/ PasswordRejected(password)
                    \/ log[p][Len(log[p])].end = "exit non-zero"
            /\ RanAny(p, {"up"}) =>
                 /\ \A k \in 1..Len(log[p]) :
                       log[p][k].op \in Modifications => log[p][k].end = "exit 0"
                 /\ ssid # << >> => RanAny(p, {"modify_ssid"})
                 /\ password # << >> =>
                       /\ ~PasswordRejected(password)
                       /\ RanAny(p, {"modify_key_mgmt"}) /\ RanAny(p, {"modify_psk"})
                 /\ \A k \in 1..Len(log[p]) :
                       log[p][k].op \in Modifications => k < CommandAt(p)

\* The SSID was changed, then the PSK modify exited non-zero: 400, and no
\* activate command.
C30_Witness ==
    /\ h["p1"].ep = "hotspot/up" /\ h["p1"].phase = "done"
    /\ resp["p1"].status = 400
    /\ Len(log["p1"]) = 3
    /\ log["p1"][1] = [op |-> "modify_ssid", name |-> HOTSPOT_CONN, end |-> "exit 0"]
    /\ log["p1"][3].op = "modify_psk" /\ log["p1"][3].end = "exit non-zero"

---------------------------------------------------------------------------
(* Claims about the read-only endpoints (SpecRead) *)

ReadOnly == ReadEndpoints \cup LookupEndpoints

\* C10: whatever the tools behind it do, a read-only status endpoint
\* answers with a status below 500.
C10_ReadOnlyNever5xx ==
    \A p \in Procs :
      (h[p].ep \in ReadOnly /\ resp[p].status # 0) => resp[p].status < 500

\* The scan dump of iw timed out, or sudo was missing.
C10_Witness ==
    /\ h["p1"].ep = "scan_iw_dump" /\ h["p1"].phase = "crashed"
    /\ resp["p1"].unhandled /\ resp["p1"].status = 500

---------------------------------------------------------------------------
(* Claims about name comparison (SpecNames) *)

Compared == calc.fn = "compare" /\ calc.done
SameButCase == Lower(calc.a) = Lower(calc.b)

\* C12: every comparison of a profile name against connection-manager
\* output (the wait's test, the flags of the status payload, the existence
\* check) gives the same result for two names that differ only in case.
C12_ComparisonsIgnoreCase ==
    (Compared /\ SameButCase) => calc.out.a = calc.out.b

\* The profile is stored as "Wg": the wait and the flag find "wg", the
\* existence check does not.
C12_Witness ==
    /\ Compared /\ SameButCase /\ calc.a # calc.b /\ calc.b = calc.stored
    /\ calc.out.a.wait /\ calc.out.a.flag /\ ~calc.out.a.has
    /\ calc.out.b.wait /\ calc.out.b.flag /\ calc.out.b.has

---------------------------------------------------------------------------
(* Claims about the security classifier (SpecClassify) *)

Classified == calc.fn = "classify_security" /\ calc.done

\* The stated decision order: the label of the first rule that matches.
DecisionOrder(t) ==
    LET element == "RSN" \in t \/ "WPA" \in t IN
      << [when |-> "OWE" \in t, label |-> "OWE"],
         [when |-> element /\ "802.1X" \in t /\ ("GCMP-256" \in t \/ "suite 9/13" \in t),
          label |-> "WPA3-Enterprise"],
         [when |-> element /\ "802.1X" \in t, label |-> "WPA2-Enterprise"],
         [when |-> element /\ "SAE" \in t, label |-> "WPA3"],
         [when |-> element /\ "PSK" \in t, label |-> "WPA2"],
         [when |-> "WPA" \in t /\ "RSN" \notin t, label |-> "WPA"],
         [when |-> element, label |-> "secured"],
         [when |-> "Privacy" \in t, label |-> "WEP"],
         [when |-> TRUE, label |-> "open"] >>

FirstMatch(rules) ==
    rules[CHOOSE i \in 1..Len(rules) :
            rules[i].when /\ \A j \in 1..(i - 1) : ~rules[j].when].label

\* The label a displayed text stands for.
LabelOf(text) == IF text = "OWE (no password)" THEN "OWE" ELSE text

\* C14: for every combination of markers the classifier gives the label of
\* the first matching rule of the stated decision order.
C14_FollowsDecisionOrder ==
    Classified => LabelOf(calc.out) = FirstMatch(DecisionOrder(calc.block))

\* A legacy-WPA element alone, with the Privacy bit: WPA, by the sixth rule.
C14_Witness ==
    Classified /\ calc.block = {"WPA", "Privacy"} /\ calc.out = "WPA"

\* C15: a block with the SAE suite and an RSN element is WPA3, whatever
\* other markers it holds.
C15_SaeWithRsnIsWpa3 ==
    (Classified /\ {"SAE", "RSN"} \subseteq calc.block) => calc.out = "WPA3"

\* C15 (amended): a block with the SAE suite and an RSN element, and
\* neither the OWE nor the 802.1X suite, is WPA3, with or without a
\* legacy-WPA element, the PSK suite, cipher markers or the Privacy bit.
C15_SaeWithRsnIsWpa3UnlessOweOr8021X ==
    (Classified /\ {"SAE", "RSN"} \subseteq calc.block
                /\ "OWE" \notin calc.block /\ "802.1X" \notin calc.block)
    => calc.out = "WPA3"

C15_Witness ==
    Classified /\ calc.block = {"SAE", "RSN", "WPA", "PSK"} /\ calc.out = "WPA3"

---------------------------------------------------------------------------
(* Claims about dbm_to_pct (SpecDbm) *)

Converted == calc.fn = "dbm_to_pct" /\ calc.done
Dbm(v) == v * QuartersPerDbm

\* C20: the result is an integer in 0..100, 0 up to -100 dBm, 100 from
\* -50 dBm on, 50 at -75 dBm, within half a point of 2*(dBm+100) in
\* between, and never smaller than the result for a weaker signal.
C20_LinearClampedMonotonic ==
    Converted =>
      /\ calc.out \in 0..100
      /\ calc.dbm <= Dbm(0 - 100) => calc.out = 0
      /\ calc.dbm >= Dbm(0 - 50) => calc.out = 100
      /\ calc.dbm = Dbm(0 - 75) => calc.out = 50
      /\ (calc.dbm >= Dbm(0 - 100) /\ calc.dbm <= Dbm(0 - 50)) =>
            LET twice == 4 * (calc.dbm + Dbm(100)) - 2 * QuartersPerDbm * calc.out
            IN  twice \in (0 - QuartersPerDbm)..QuartersPerDbm
      /\ \A weaker \in Dbms : weaker <= calc.dbm => dbm_to_pct(weaker) <= calc.out

\* -74.75 dBm gives 50: the half goes to the even side.
C20_Witness ==
    Converted /\ calc.dbm = Dbm(0 - 75) + 1 /\ calc.out = 50

---------------------------------------------------------------------------
(* Claims about the scan parser (SpecParse, SpecSsid) *)

Parsed == calc.fn = "parse_iw_scan_dump" /\ calc.done
Records == { calc.out[i] : i \in 1..Len(calc.out) }

\* The labels of the data model, in the spelling the classifier returns.
EnumLabels ==
    {"open", "WEP", "WPA", "WPA2", "WPA2-Enterprise", "WPA3", "WPA3-Enterprise", "OWE"}

\* C16: every record's security label is one of the eight values of the
\* data model.
C16_LabelInEnum ==
    Parsed => \A r \in Records : LabelOf(r.security) \in EnumLabels

\* C16 (amended): every record's security label is one of the eight values
\* or the generic "secured".
C16_LabelInEnumOrSecured ==
    Parsed => \A r \in Records : LabelOf(r.security) \in EnumLabels \cup {"secured"}

\* A block with an RSN element and no authentication suite.
C16_Witness ==
    /\ Parsed /\ Len(calc.out) = 2
    /\ calc.out[1].security = "WPA2" /\ calc.out[2].security = "secured"

\* What the block at position k contributes.
SsidAt(k) == MatchSsid(calc.blocks[k]).ssid
PctAt(k) == sigval([signal |-> SignalOf(calc.blocks[k])])
LabelAt(k) == classify_security(MarkersOf(calc.blocks[k]))

\* The block a record must come from: of the blocks with its SSID, the
\* first of those with the highest percentage.
Kept(ssid) ==
    CHOOSE k \in 1..Len(calc.blocks) :
      /\ SsidAt(k) = ssid
      /\ \A j \in 1..Len(calc.blocks) :
            SsidAt(j) = ssid => (PctAt(j) < PctAt(k) \/ (PctAt(j) = PctAt(k) /\ j >= k))

\* C17: one record per SSID, that of the block with the strictly highest
\* signal percentage (unknown below 0%), the first seen among ties, with
\* that block's signal and security label.
C17_OneRecordPerSsidStrongestFirstSeen ==
    Parsed =>
      /\ \A i, j \in 1..Len(calc.out) : calc.out[i].ssid = calc.out[j].ssid => i = j
      /\ \A k \in 1..Len(calc.blocks) : \E r \in Records : r.ssid = SsidAt(k)
      /\ \A r \in Records :
            /\ \E k \in 1..Len(calc.blocks) : SsidAt(k) = r.ssid
            /\ r.signal = SignalOf(calc.blocks[Kept(r.ssid)])
            /\ r.security = LabelAt(Kept(r.ssid))

\* Home at -70 dBm, then Home at -40 dBm with another label: one record,
\* that of the second block.
C17_Witness ==
    /\ Parsed /\ Len(calc.blocks) = 2 /\ Len(calc.out) = 1
    /\ SsidAt(1) = Home /\ SsidAt(2) = Home
    /\ PctAt(1) = dbm_to_pct((0 - 70) * QuartersPerDbm)
    /\ PctAt(2) = dbm_to_pct((0 - 40) * QuartersPerDbm)
    /\ LabelAt(1) # LabelAt(2)
    /\ calc.out[1].signal = Digits(100) /\ calc.out[1].security = LabelAt(2)

\* C18: the list is in non-increasing order of signal percentage, and
\* every record with unknown signal comes after every record with a known
\* one, a known 0% included.
C18_SortedKnownBeforeUnknown ==
    Parsed =>
      \A i, j \in 1..Len(calc.out) :
        i < j =>
          /\ calc.out[i].signal = Unknown => calc.out[j].signal = Unknown
          /\ (calc.out[i].signal # Unknown /\ calc.out[j].signal # Unknown) =>
                calc.out[i].signal[1] >= calc.out[j].signal[1]

\* The block without signal came first, the one at 0% second.
C18_Witness ==
    /\ Parsed /\ Len(calc.blocks) = 2 /\ Len(calc.out) = 2
    /\ SignalOf(calc.blocks[1]) = Unknown /\ SignalOf(calc.blocks[2]) = Digits(0)
    /\ calc.out[1].signal = Digits(0) /\ calc.out[2].signal = Unknown

\* The value on the SSID line itself.
OwnSsid(blk) ==
    LET i == FirstLine(SsidLines(blk), 1)
        text == LStrip(blk[i].text)
    IN  Strip(SubSeq(text, 6, Len(text)))

\* C19: a block without an SSID line, or whose SSID is empty or fails
\* validation, yields no record, whatever line follows the SSID line; the
\* SSID of a record is the value of its block's SSID line.
C19_NoRecordWithoutValidSsid ==
    Parsed =>
      LET blk == calc.blocks[1] IN
        IF FirstLine(SsidLines(blk), 1) = 0 THEN calc.out = << >>
        ELSE /\ ~_valid_ssid(OwnSsid(blk)) => calc.out = << >>
             /\ \A r \in Records : r.ssid = OwnSsid(blk)

\* The SSID line is empty and the ERP line follows it: the record's SSID is
\* the text of the ERP line.
C19_Witness ==
    /\ Parsed /\ Len(calc.out) = 1
    /\ OwnSsid(calc.blocks[1]) = << >>
    /\ calc.out[1].ssid = Strip(ErpLine.text)

---------------------------------------------------------------------------
(* Claims about the time-sync peer selector (SpecNtp) *)

Selected == calc.fn = "_ntp_last_peer" /\ calc.done /\ calc.out.outcome = "ok"

\* The peer lines of the output, in output order.
PeersOf(output) ==
    LET IsPeer(ln) == ln \in PeersTried IN SelectSeq(output, IsPeer)

\* The index the priority policy gives: the tally character is the mark.
ByPriority(peers) ==
    LET n == Len(peers)
        star == FirstLine([k \in 1..n |-> peers[k].tally = "*"], 1)
        cand == FirstLine([k \in 1..n |-> peers[k].tally \in {"+", "o"}], 1)
        reach == FirstLine([k \in 1..n |-> ReachNonZero(peers[k])], 1)
    IN  IF star # 0 THEN star
        ELSE IF cand # 0 THEN cand
        ELSE IF reach # 0 THEN reach
        ELSE 1

\* C21: for every non-empty list of peer lines the selector picks the first
\* line marked '*', else the first marked '+' or 'o', else the first whose
\* reach, read in octal, is above zero, else the first line; with no peer
\* line it answers n/a.
C21_PicksByPriority ==
    Selected =>
      LET peers == PeersOf(calc.output) IN
        IF peers = << >> THEN calc.out.peer.na
        ELSE /\ ~calc.out.peer.na
             /\ calc.out.peer.chosen = peers[ByPriority(peers)]

\* An outlier heard on every poll, then a pool entry whose name begins with
\* "o": the pool entry is chosen.
C21_Witness ==
    /\ Selected /\ Len(calc.output) = 2
    /\ calc.output[1].tally = "-" /\ ReachNonZero(calc.output[1])
    /\ calc.output[2].tally = " " /\ ~ReachNonZero(calc.output[2])
    /\ calc.out.peer.chosen = calc.output[2]

---------------------------------------------------------------------------
(* Claims about the upstream lookups (SpecRead) *)

Attempted(p) == log[p]
LookupOver(p) == h[p].ep \in LookupEndpoints /\ h[p].phase \in {"done", "crashed"}
GaveIpv4(entry) == entry.name[1] \in {"ipv4", "raw ipv4"}

\* C22: a lookup makes at most two upstream attempts, with the backoff
\* after each failed attempt that is followed by another one; server_ip
\* answers 200 exactly when an attempt gave an IPv4 address and 502
\* otherwise; no other operation runs anything twice.
C22_TwoAttemptsWithBackoff ==
    \A p \in Procs :
      /\ h[p].ep \in LookupEndpoints =>
            /\ Len(Attempted(p)) <= Attempts
            /\ \A i \in 1..(Len(Attempted(p)) - 1) : Attempted(p)[i].end = "slept"
      /\ LookupOver(p) /\ h[p].ep = "server_ip" =>
            IF \E i \in 1..Len(Attempted(p)) : GaveIpv4(Attempted(p)[i])
            THEN resp[p].status = 200
            ELSE resp[p].status = 502
      /\ h[p].ep \notin LookupEndpoints => Len(log[p]) <= 1

\* server_ip got an IPv6 address at the first attempt and went on to the
\* second without the sleep.
C22_Witness ==
    /\ h["p1"].ep = "server_ip" /\ Len(log["p1"]) = 2
    /\ log["p1"][1].name = <<"ipv6">> /\ log["p1"][1].end = "no sleep"

---------------------------------------------------------------------------
(* Claims about the response headers (SpecRead) *)

\* C23: every response of both services, on success and on error paths
\* alike, carries the cache-disabling Cache-Control header and the
\* Content-Security-Policy header.
C23_CacheAndPolicyHeadersOnEveryResponse ==
    \A p \in Procs :
      resp[p].status # 0 =>
        /\ "Cache-Control" \in resp[p].headers
        /\ "Content-Security-Policy" \in resp[p].headers

\* server_geo refused its ip argument: the 400 goes out with neither header.
C23_Witness ==
    /\ h["p1"].ep = "server_geo" /\ h["p1"].phase = "done"
    /\ resp["p1"].status = 400
    /\ resp["p1"].headers = {}

---------------------------------------------------------------------------
(* Claims about the wait and failed status queries (SpecWait) *)

\* C24: whenever the wait returns settled=True, the connection manager's
\* active set satisfied the target condition at each of the last two polls,
\* also when a status query failed; a wait for the absence of a profile
\* does not settle while that profile is active.
C24_SettledOnTheRealActiveSet ==
    \A p \in Procs :
      LET wf == w[p]  n == Len(wf.real) IN
        (wf.state = "returned" /\ wf.settled) =>
           n >= 2 /\ wf.real[n] /\ wf.real[n - 1]

\* Both status queries failed: the wait for the proxy's absence settled
\* after two polls with the proxy active throughout.
C24_Witness ==
    /\ Wait1.state = "returned" /\ Wait1.settled
    /\ Wait1.absent = {TOR_CONN} /\ TOR_CONN \in active
    /\ Wait1.real = <<FALSE, FALSE>> /\ Wait1.hist = <<TRUE, TRUE>>

\* C27: a wait that has returned made at least one poll, and at least two
\* if it returned settled=True; with a timeout of zero it made exactly one
\* poll and returned settled=False, even if the condition held at it; and
\* when it returned settled=False after more than one poll, the condition
\* failed at the last poll or at the one before.
C27_PollCountBounds ==
    \A p \in Procs :
      LET wf == w[p]  n == LastPoll(wf) IN
        wf.state = "returned" =>
           /\ n >= 1
           /\ wf.settled => n >= 2
           /\ wf.timeout <= 0 => (n = 1 /\ ~wf.settled)
           /\ ~wf.settled => (n = 1 \/ ~wf.hist[n] \/ ~wf.hist[n - 1])

\* A timeout of zero: one poll, at which the condition held, and
\* settled=False with a snapshot that satisfies the condition.
C27_Witness ==
    /\ Wait1.state = "returned" /\ ~Wait1.settled /\ Wait1.timeout = 0
    /\ Wait1.hist = <<TRUE>>
    /\ StableCond(Wait1.present, Wait1.absent, Wait1.names)

=============================================================================
